---- MODULE Spec2Model ----
(***************************************************************************)
(* Pipeline job-state machine of amie-azure: one WorkItem (one RowKey of   *)
(* the IngestionRequests table) and the handlers of the four function apps *)
(* that read and write it.  Every ledger call (get_entity, update_entity,  *)
(* create_entity), blob upload and hand-off POST of a handler is one       *)
(* atomic step; handlers interleave between steps.                         *)
(***************************************************************************)
EXTENDS Integers, Naturals, FiniteSets, Sequences, TLC

\* ------------------------------------------------------------------ bounds
MaxInv == 2          \* invocation slots (stage and API handler runs) per item
RaceN == 2           \* duplicate triggers racing in the race scenarios
SmallLen == 100      \* length of a short output or error text

\* ------------------------------------------------------- program constants
MaxTableChars == 32 * 1024 - 256   \* naa function_app.py:291
AAInlineMax == 32 * 1024           \* aa function_app.py:146
ErrMax == 32000                    \* naa function_app.py:354

InvIds == 1..MaxInv
\* the racing triggers and the runs they hand off to
RaceIds == 1..(RaceN + 2)
NAAOutLens == {SmallLen, MaxTableChars + 1}
\* a report above the NAA threshold that AA still stores inline, and one above AA's own
AAOutLens == {SmallLen, MaxTableChars + 1, AAInlineMax + 1}
ErrLens == {SmallLen, ErrMax + 1}
NAABlobPath == "naa-outputs/id.json"
AABlobPath == "aa-outputs/id.md"
TS == "ts"

VARIABLES
    entity,   \* the table row: a function from the names of the properties it has
    etag,     \* its version; 0 while the row does not exist
    blobs,    \* blob container: path -> stored length
    queue,    \* messages waiting in idca-queue
    upl,      \* the upload handler of this item
    inv,      \* invocation slots
    search,   \* locals of one progressive_search call
    retry,    \* locals of one retry_agent call and of its caller
    http      \* provider adapter calls of one process and its rate-limit state

vars == <<entity, etag, blobs, queue, upl, inv, search, retry, http>>

\* no provider adapter is called
NoHttp == [lock |-> 0]

\* no retry_agent call is under way
NoRetry == [pc |-> "none"]

\* no progressive_search call is under way
NoSearch == [pc |-> "none"]

\* ------------------------------------------------------ table primitives
NoEntity == [f \in {} |-> TS]

\* dict.get(name, default)
Get(e, f, d) == IF f \in DOMAIN e THEN e[f] ELSE d

\* entity.get("status", "").lower(); every status the services write is a
\* lower-case literal, so lower() maps each of them to itself
StatusOf(e) == Get(e, "status", "")

\* update_entity(mode="merge"): properties of the patch overwrite, others stay
Merge(old, patch) == patch @@ old

\* dict.pop(name, None)
Pop(e, f) == [g \in DOMAIN e \ {f} |-> e[g]]

\* str(exc)[:32000]
TruncateNoCut(len, n) == len
Truncate(len, n) == IF len > n THEN n ELSE len

\* any call to the table, blob or queue service may raise (timeout, throttling)
StorageError == TRUE

\* get_entity succeeds only on an existing row
Exists == etag # 0

\* unconditional update_entity(mode="merge")
LedgerMergeAsReplace(patch) ==
    /\ Exists
    /\ entity' = patch
    /\ etag' = etag + 1
LedgerMerge(patch) ==
    /\ Exists
    /\ entity' = Merge(entity, patch)
    /\ etag' = etag + 1

\* update_entity(mode="replace", etag=..., match_condition=IfNotModified)
LedgerReplaceIfMatchAlways(e, tag) ==
    /\ Exists
    /\ entity' = e
    /\ etag' = etag + 1
LedgerReplaceIfMatch(e, tag) ==
    /\ Exists
    /\ etag = tag
    /\ entity' = e
    /\ etag' = etag + 1

\* ------------------------------------------------------ invocation slots
Idle == [kind |-> "none", pc |-> "none", arrived |-> "?",
         ent |-> NoEntity, etagRead |-> 0,
         readStatus |-> "?", claimErr |-> "none", claimed |-> FALSE,
         ranLogic |-> FALSE, out |-> 0, resp |-> "", err |-> 0, child |-> 0,
         raised |-> FALSE, advanced |-> FALSE,
         triggered |-> FALSE, writes |-> 0, http |-> 0,
         naa |-> [step |-> "none"]]

\* a request for endpoint k has reached its function app; arrived records the
\* status the row had at that moment
Fresh(k, start) ==
    [Idle EXCEPT !.kind = k, !.pc = start, !.arrived = StatusOf(entity)]

Slots == DOMAIN inv
Free(j) == inv[j].kind = "none"
\* a new invocation takes the first unused slot
FirstFree(j) == Free(j) /\ \A h \in Slots : h < j => ~Free(h)
At(i, k, p) == inv[i].kind = k /\ inv[i].pc = p
Done(i) == inv[i].pc = "done"

\* the handler returns func.HttpResponse(status_code=code)
Return(r, code) ==
    [r EXCEPT !.pc = "done", !.http = code, !.ent = NoEntity, !.etagRead = 0,
              !.out = 0, !.resp = "", !.err = 0]

Set(i, r) == inv' = [inv EXCEPT ![i] = r]

\* ================================================= NAA  POST /worker/run/{id}
\* "if status != 'classified': ... Skipping"
NAAMayRunWhileBusy(st) == st \in {"classified", "analyzing"}
NAAMayRun(st) == st = "classified"

\* step 0: get_entity and the status check
run_novelty_analysis_get_entity(i) ==
    /\ UNCHANGED <<search, retry, http>>
    /\ At(i, "naa", "read")
    /\ UNCHANGED <<entity, etag, blobs, queue, upl>>
    /\ LET r == inv[i]
           s == StatusOf(entity)
           got == [r EXCEPT !.ent = entity, !.etagRead = etag, !.readStatus = s]
       IN \/ /\ Exists
             /\ Set(i, IF ~NAAMayRun(s) THEN Return(got, 200)
                                         ELSE [got EXCEPT !.pc = "claim"])
          \/ /\ StorageError
             /\ Set(i, Return([r EXCEPT !.claimErr = "other"], 500))

\* the claim: replace guarded by the etag that was read
run_novelty_analysis_claim(i) ==
    /\ UNCHANGED <<search, retry, http>>
    /\ At(i, "naa", "claim")
    /\ UNCHANGED <<blobs, queue, upl>>
    /\ LET r == inv[i]
           e == Merge(r.ent, [status |-> "analyzing", naa_started_at |-> TS])
       IN \/ /\ LedgerReplaceIfMatch(e, r.etagRead)
             /\ Set(i, [r EXCEPT !.ent = NoEntity, !.claimed = TRUE,
                                 !.writes = @ + 1, !.pc = "logic"])
          \/ /\ etag # r.etagRead /\ UNCHANGED <<entity, etag>>
             /\ Set(i, Return([r EXCEPT !.claimErr = "conflict"], 200))
          \/ /\ StorageError /\ UNCHANGED <<entity, etag>>
             /\ Set(i, Return([r EXCEPT !.claimErr = "other"], 500))

\* steps 1-4: the pipeline returns an output or raises
run_novelty_analysis_logic(i) ==
    /\ UNCHANGED <<search, retry, http>>
    /\ At(i, "naa", "logic")
    /\ UNCHANGED <<entity, etag, blobs, queue, upl>>
    /\ LET r == [inv[i] EXCEPT !.ranLogic = TRUE]
       IN \/ \E n \in NAAOutLens :
                Set(i, [r EXCEPT !.out = n,
                          !.pc = IF n > MaxTableChars THEN "blob" ELSE "complete"])
          \/ \E m \in ErrLens :
                Set(i, [r EXCEPT !.raised = TRUE, !.err = m, !.pc = "fail"])

\* step 5 for a large output: upload_blob(overwrite=True)
run_novelty_analysis_upload_blob(i) ==
    /\ UNCHANGED <<search, retry, http>>
    /\ At(i, "naa", "blob")
    /\ UNCHANGED <<entity, etag, queue, upl>>
    /\ LET r == inv[i]
       IN \/
             /\ blobs' = (NAABlobPath :> r.out) @@ blobs
             /\ Set(i, [r EXCEPT !.writes = @ + 1, !.pc = "complete"])
          \/ /\ StorageError /\ UNCHANGED blobs
             /\ Set(i, [r EXCEPT !.err = SmallLen, !.pc = "fail"])

\* the patch of step 5
NAAPatch(n) ==
    IF n > MaxTableChars
    THEN [status |-> "assessed", naa_output_blob |-> NAABlobPath]
    ELSE ("status" :> "assessed") @@ ("naa_output" :> n)

\* step 5: the completion write, an unconditional merge
run_novelty_analysis_complete(i) ==
    /\ UNCHANGED <<search, retry, http>>
    /\ At(i, "naa", "complete")
    /\ UNCHANGED <<blobs, queue, upl>>
    /\ LET r == inv[i]
       IN \/ /\ LedgerMerge(NAAPatch(r.out))
             /\ Set(i, [r EXCEPT !.advanced = TRUE, !.writes = @ + 1,
                                 !.pc = "trigger"])
          \/ /\ StorageError /\ UNCHANGED <<entity, etag>>
             /\ Set(i, [r EXCEPT !.err = SmallLen, !.pc = "fail"])

\* step 6: httpx.post to the AA app; the request starts an AA run or fails to connect
run_novelty_analysis_post_aa(i) ==
    /\ UNCHANGED <<search, retry, http>>
    /\ At(i, "naa", "trigger")
    /\ UNCHANGED <<entity, etag, blobs, queue, upl>>
    /\ LET r == [inv[i] EXCEPT !.triggered = TRUE]
       IN \/ \E j \in Slots :
                /\ FirstFree(j)
                /\ inv' = [inv EXCEPT ![i] = [r EXCEPT !.child = j, !.pc = "await"],
                                      ![j] = Fresh("aa", "read")]
          \/ Set(i, [r EXCEPT !.pc = "aaerr"])

\* step 6: the POST returns; raise_for_status raises on 4xx/5xx, a timeout raises at any time
run_novelty_analysis_aa_returned(i) ==
    /\ UNCHANGED <<search, retry, http>>
    /\ At(i, "naa", "await")
    /\ UNCHANGED <<entity, etag, blobs, queue, upl>>
    /\ LET r == inv[i]
           c == inv[r.child]
       IN \/ /\ c.pc = "done" /\ c.http < 400
             /\ Set(i, Return(r, 200))
          \/ Set(i, [r EXCEPT !.pc = "aaerr"])

\* step 6, except branch: merge of status assessed and aa_error
run_novelty_analysis_aa_error(i) ==
    /\ UNCHANGED <<search, retry, http>>
    /\ At(i, "naa", "aaerr")
    /\ UNCHANGED <<blobs, queue, upl>>
    /\ LET r == inv[i]
       IN \/ /\ LedgerMerge([status |-> "assessed", aa_error |-> TS])
             /\ Set(i, Return([r EXCEPT !.writes = @ + 1], 200))
          \/ /\ StorageError /\ UNCHANGED <<entity, etag>>
             /\ Set(i, [r EXCEPT !.err = SmallLen, !.pc = "fail"])

\* the outer except: merge of status failed and the truncated message; a failure
\* of this write is swallowed
run_novelty_analysis_failed(i) ==
    /\ UNCHANGED <<search, retry, http>>
    /\ At(i, "naa", "fail")
    /\ UNCHANGED <<blobs, queue, upl>>
    /\ LET r == inv[i]
       IN \/
             /\ LedgerMerge(("status" :> "failed") @@ ("error" :> Truncate(r.err, ErrMax)))
             /\ Set(i, Return([r EXCEPT !.writes = @ + 1], 500))
          \/ /\ StorageError /\ UNCHANGED <<entity, etag>>
             /\ Set(i, Return(r, 500))

\* ===================================================== AA  POST /aa/run/{id}
\* "if status != 'assessed': ... Skipping"
AAMayRun(st) == st = "assessed"

\* step 1: get_entity and the status check
run_aa_get_entity(i) ==
    /\ UNCHANGED <<search, retry, http>>
    /\ At(i, "aa", "read")
    /\ UNCHANGED <<entity, etag, blobs, queue, upl>>
    /\ LET r == inv[i]
           s == StatusOf(entity)
           got == [r EXCEPT !.ent = entity, !.etagRead = etag, !.readStatus = s]
       IN \/ /\ Exists
             /\ Set(i, IF ~AAMayRun(s) THEN Return(got, 200)
                                        ELSE [got EXCEPT !.pc = "claim"])
          \/ /\ StorageError
             /\ Set(i, [r EXCEPT !.claimErr = "other", !.pc = "reread"])

\* the claim: aa_started_at is added, status is left as read
run_aa_claim(i) ==
    /\ UNCHANGED <<search, retry, http>>
    /\ At(i, "aa", "claim")
    /\ UNCHANGED <<blobs, queue, upl>>
    /\ LET r == inv[i]
           e == Merge(r.ent, [aa_started_at |-> TS])
       IN \/ /\ LedgerReplaceIfMatch(e, r.etagRead)
             /\ Set(i, [r EXCEPT !.ent = e, !.claimed = TRUE,
                                 !.writes = @ + 1, !.pc = "agent"])
          \/ /\ etag # r.etagRead /\ UNCHANGED <<entity, etag>>
             /\ Set(i, Return([r EXCEPT !.claimErr = "conflict"], 200))
          \/ /\ StorageError /\ UNCHANGED <<entity, etag>>
             /\ Set(i, [r EXCEPT !.claimErr = "other", !.pc = "reread"])

\* "Proceed anyway if it's just a read error": get_entity again
run_aa_reread(i) ==
    /\ UNCHANGED <<search, retry, http>>
    /\ At(i, "aa", "reread")
    /\ UNCHANGED <<entity, etag, blobs, queue, upl>>
    /\ LET r == inv[i]
       IN \/ /\ Exists
             /\ Set(i, [r EXCEPT !.ent = entity, !.etagRead = etag, !.pc = "agent"])
          \/ /\ StorageError
             /\ Set(i, Return(r, 500))

\* run_aggregation_agent(table=None) returns the report or raises; the outer
\* except answers 500 and writes nothing
run_aa_agent(i) ==
    /\ UNCHANGED <<search, retry, http>>
    /\ At(i, "aa", "agent")
    /\ UNCHANGED <<entity, etag, blobs, queue, upl>>
    /\ LET r == [inv[i] EXCEPT !.ranLogic = TRUE]
       IN \/ \E n \in AAOutLens :
                Set(i, [r EXCEPT !.out = n,
                          !.pc = IF n > AAInlineMax THEN "blob" ELSE "complete"])
          \/ \E m \in ErrLens :
                Set(i, Return([r EXCEPT !.raised = TRUE, !.err = m], 500))

\* upload_blob(report_bytes, overwrite=True) for a large report
run_aa_upload_blob(i) ==
    /\ UNCHANGED <<search, retry, http>>
    /\ At(i, "aa", "blob")
    /\ UNCHANGED <<entity, etag, queue, upl>>
    /\ LET r == inv[i]
       IN \/
             /\ blobs' = (AABlobPath :> r.out) @@ blobs
             /\ Set(i, [r EXCEPT !.writes = @ + 1, !.pc = "complete"])
          \/ /\ StorageError /\ UNCHANGED blobs
             /\ Set(i, Return([r EXCEPT !.err = SmallLen], 500))

\* the entity dict that is written on completion
AACompletedTypo(e, n) ==
    LET c == Merge(e, [status |-> "complete", completed_at |-> TS])
    IN IF n > AAInlineMax
       THEN Pop(Merge(c, [aa_output_blob |-> AABlobPath]), "aa_output")
       ELSE Pop(Merge(c, "aa_output" :> n), "aa_output_blob")
AACompleted(e, n) ==
    LET c == Merge(e, [status |-> "completed", completed_at |-> TS])
    IN IF n > AAInlineMax
       THEN Pop(Merge(c, [aa_output_blob |-> AABlobPath]), "aa_output")
       ELSE Pop(Merge(c, "aa_output" :> n), "aa_output_blob")

\* table_client.update_entity(entity): the default mode is merge, no etag condition
run_aa_complete(i) ==
    /\ UNCHANGED <<search, retry, http>>
    /\ At(i, "aa", "complete")
    /\ UNCHANGED <<blobs, queue, upl>>
    /\ LET r == inv[i]
           e == AACompleted(r.ent, r.out)
       IN \/ /\ LedgerMerge(e)
             /\ Set(i, Return([r EXCEPT !.advanced = TRUE, !.writes = @ + 1], 200))
          \/ /\ StorageError /\ UNCHANGED <<entity, etag>>
             /\ Set(i, Return([r EXCEPT !.err = SmallLen], 500))

\* ================================================ IDCA  POST /idca/run/{id}
\* statuses on which run_idca skips the claim
IDCASkip == {"classifying", "classified", "completed", "failed"}

\* step 1: get_entity and the status check; on a read error the handler logs
\* and goes on to the IDCA logic
run_idca_get_entity(i) ==
    /\ UNCHANGED <<search, retry, http>>
    /\ At(i, "idca", "read")
    /\ UNCHANGED <<entity, etag, blobs, queue, upl>>
    /\ LET r == inv[i]
           s == StatusOf(entity)
           got == [r EXCEPT !.ent = entity, !.etagRead = etag, !.readStatus = s]
       IN \/ /\ Exists
             /\ Set(i, IF s \in IDCASkip THEN Return(got, 200)
                                         ELSE [got EXCEPT !.pc = "claim"])
          \/ /\ StorageError
             /\ Set(i, [r EXCEPT !.claimErr = "other", !.ranLogic = TRUE,
                                 !.pc = "text"])

\* step 2: the claim, a replace guarded by the etag; on another error the
\* handler logs and goes on to the IDCA logic
run_idca_claim(i) ==
    /\ UNCHANGED <<search, retry, http>>
    /\ At(i, "idca", "claim")
    /\ UNCHANGED <<blobs, queue, upl>>
    /\ LET r == inv[i]
           e == Merge(r.ent, [status |-> "classifying",
                              classifying_started_at |-> TS])
       IN \/ /\ LedgerReplaceIfMatch(e, r.etagRead)
             /\ Set(i, [r EXCEPT !.ent = NoEntity, !.claimed = TRUE,
                                 !.ranLogic = TRUE, !.writes = @ + 1, !.pc = "text"])
          \/ /\ etag # r.etagRead /\ UNCHANGED <<entity, etag>>
             /\ Set(i, Return([r EXCEPT !.claimErr = "conflict"], 200))
          \/ /\ StorageError /\ UNCHANGED <<entity, etag>>
             /\ Set(i, [r EXCEPT !.claimErr = "other", !.ranLogic = TRUE,
                                 !.pc = "text"])

\* idca.run_idca: get_manuscript_text reads the row and the blob; a failure
\* raises to the handler, which answers 500
idca_get_manuscript_text(i) ==
    /\ UNCHANGED <<search, retry, http>>
    /\ At(i, "idca", "text")
    /\ UNCHANGED <<entity, etag, blobs, queue, upl>>
    /\ LET r == inv[i]
       IN \/ /\ Exists /\ "filename" \in DOMAIN entity
             /\ Set(i, [r EXCEPT !.pc = "mark_read"])
          \/ /\ StorageError
             /\ Set(i, Return([r EXCEPT !.raised = TRUE, !.err = SmallLen], 500))

\* "Mark as classifying BEFORE running IDCA": get_entity ...
idca_mark_classifying_get(i) ==
    /\ UNCHANGED <<search, retry, http>>
    /\ At(i, "idca", "mark_read")
    /\ UNCHANGED <<entity, etag, blobs, queue, upl>>
    /\ LET r == inv[i]
       IN \/ /\ Exists
             /\ Set(i, [r EXCEPT !.ent = entity, !.pc = "mark_write"])
          \/ /\ StorageError
             /\ Set(i, [r EXCEPT !.pc = "agent"])

\* ... and update_entity(entity), an unconditional merge; a failure is printed
idca_mark_classifying_update(i) ==
    /\ UNCHANGED <<search, retry, http>>
    /\ At(i, "idca", "mark_write")
    /\ UNCHANGED <<blobs, queue, upl>>
    /\ LET r == inv[i]
           e == Merge(r.ent, [status |-> "classifying"])
       IN \/ /\ LedgerMerge(e)
             /\ Set(i, [r EXCEPT !.ent = NoEntity, !.writes = @ + 1, !.pc = "agent"])
          \/ /\ StorageError /\ UNCHANGED <<entity, etag>>
             /\ Set(i, [r EXCEPT !.pc = "agent"])

\* retry_agent(execute_idca_agent) returns the first valid JSON reply
idca_execute_idca_agent(i) ==
    /\ UNCHANGED <<search, retry, http>>
    /\ At(i, "idca", "agent")
    /\ UNCHANGED <<entity, etag, blobs, queue, upl>>
    /\ \E d \in {"Present", "Absent"} :
          Set(i, [inv[i] EXCEPT !.resp = d, !.pc = "save_read"])

\* "Save IDCA output to table and mark as classified": get_entity ...
idca_mark_classified_get(i) ==
    /\ UNCHANGED <<search, retry, http>>
    /\ At(i, "idca", "save_read")
    /\ UNCHANGED <<entity, etag, blobs, queue, upl>>
    /\ LET r == inv[i]
       IN \/ /\ Exists
             /\ Set(i, [r EXCEPT !.ent = entity, !.pc = "save_write"])
          \/ /\ StorageError
             /\ Set(i, [r EXCEPT !.pc = "handoff"])

\* ... and update_entity(entity), an unconditional merge; a failure is printed
idca_mark_classified_update(i) ==
    /\ UNCHANGED <<search, retry, http>>
    /\ At(i, "idca", "save_write")
    /\ UNCHANGED <<blobs, queue, upl>>
    /\ LET r == inv[i]
           e == Merge(r.ent, [idca_output |-> r.resp, status |-> "classified"])
       IN \/ /\ LedgerMerge(e)
             /\ Set(i, [r EXCEPT !.ent = NoEntity, !.advanced = TRUE,
                                 !.writes = @ + 1, !.pc = "handoff"])
          \/ /\ StorageError /\ UNCHANGED <<entity, etag>>
             /\ Set(i, [r EXCEPT !.pc = "handoff"])

\* case 2, invention present: httpx.post to the NAA app; the reply is not
\* looked at and an exception is printed
idca_post_naa(i) ==
    /\ UNCHANGED <<search, retry, http>>
    /\ At(i, "idca", "handoff")
    /\ inv[i].resp = "Present"
    /\ UNCHANGED <<entity, etag, blobs, queue, upl>>
    /\ LET r == Return([inv[i] EXCEPT !.triggered = TRUE], 202)
       IN \/ \E j \in Slots :
                /\ FirstFree(j)
                /\ inv' = [inv EXCEPT ![i] = [r EXCEPT !.child = j],
                                      ![j] = Fresh("naa", "read")]
          \/ Set(i, r)

\* case 1, no invention: httpx.post to the AA app
idca_post_aa(i) ==
    /\ UNCHANGED <<search, retry, http>>
    /\ At(i, "idca", "handoff")
    /\ inv[i].resp # "Present"
    /\ UNCHANGED <<entity, etag, blobs, queue, upl>>
    /\ LET r == [inv[i] EXCEPT !.triggered = TRUE]
       IN \/ \E j \in Slots :
                /\ FirstFree(j)
                /\ inv' = [inv EXCEPT ![i] = [r EXCEPT !.child = j, !.pc = "await"],
                                      ![j] = Fresh("aa", "read")]
          \/ Set(i, Return(r, 202))

\* the POST to AA returns with any status code, or times out and raises
idca_aa_returned(i) ==
    /\ UNCHANGED <<search, retry, http>>
    /\ At(i, "idca", "await")
    /\ UNCHANGED <<entity, etag, blobs, queue, upl>>
    /\ LET r == inv[i]
       IN \/ /\ Done(r.child)
             /\ Set(i, [r EXCEPT !.pc = "done_read"])
          \/ Set(i, Return(r, 202))

\* "Mark as completed for the UI": get_entity ...
idca_mark_completed_get(i) ==
    /\ UNCHANGED <<search, retry, http>>
    /\ At(i, "idca", "done_read")
    /\ UNCHANGED <<entity, etag, blobs, queue, upl>>
    /\ LET r == inv[i]
       IN \/ /\ Exists
             /\ Set(i, [r EXCEPT !.ent = entity, !.pc = "done_write"])
          \/ /\ StorageError
             /\ Set(i, Return(r, 202))

\* ... and update_entity(entity), an unconditional merge
idca_mark_completed_update(i) ==
    /\ UNCHANGED <<search, retry, http>>
    /\ At(i, "idca", "done_write")
    /\ UNCHANGED <<blobs, queue, upl>>
    /\ LET r == inv[i]
           e == Merge(r.ent, [status |-> "completed", completed_at |-> TS])
       IN \/ /\ LedgerMerge(e)
             /\ Set(i, Return([r EXCEPT !.writes = @ + 1], 202))
          \/ /\ StorageError /\ UNCHANGED <<entity, etag>>
             /\ Set(i, Return(r, 202))

\* ================================================== ingestion  POST /upload
\* the row that upload creates
UploadEntity(st) == [filename |-> "f.pdf", status |-> st, uploaded_at |-> TS]

\* upload_blob of the manuscript and create_entity; a failure answers 500
upload_create_entity ==
    /\ UNCHANGED <<search, retry, http>>
    /\ upl = "create"
    /\ UNCHANGED <<queue, inv>>
    /\ \/
          /\ blobs' = ("f.pdf" :> SmallLen) @@ blobs
          /\ entity' = UploadEntity("uploaded")
          /\ etag' = 1
          /\ upl' = "enqueue"
       \/ /\ StorageError /\ UNCHANGED <<entity, etag, blobs>>
          /\ upl' = "done"

\* queue_client.send_message(request_id)
upload_send_message ==
    /\ UNCHANGED <<search, retry, http>>
    /\ upl = "enqueue"
    /\ UNCHANGED <<entity, etag, blobs, inv>>
    /\ \/ /\ queue' = queue + 1 /\ upl' = "queued"
       \/ /\ StorageError /\ UNCHANGED queue /\ upl' = "enqueue_failed"

\* entity["status"] = "queued"; update_entity(mode="merge")
upload_mark_queued ==
    /\ UNCHANGED <<search, retry, http>>
    /\ upl = "queued"
    /\ UNCHANGED <<blobs, queue, inv>>
    /\ \/ /\ LedgerMerge(UploadEntity("queued")) /\ upl' = "done"
       \/ /\ StorageError /\ UNCHANGED <<entity, etag>> /\ upl' = "enqueue_failed"

\* except branch: entity["status"] = "enqueue_failed"; update_entity(mode="merge")
upload_mark_enqueue_failed ==
    /\ UNCHANGED <<search, retry, http>>
    /\ upl = "enqueue_failed"
    /\ UNCHANGED <<blobs, queue, inv>>
    /\ upl' = "done"
    /\ \/ LedgerMerge(UploadEntity("enqueue_failed"))
       \/ StorageError /\ UNCHANGED <<entity, etag>>

upload ==
    \/ upload_create_entity
    \/ upload_send_message
    \/ upload_mark_queued
    \/ upload_mark_enqueue_failed

\* ----------------------------------------- ingestion  queue trigger idca-queue
\* the worker POSTs to the IDCA app; when the POST raises (timeout, 5xx) the
\* message stays in the queue and is delivered again
idca_queue_worker ==
    /\ UNCHANGED <<search, retry, http>>
    /\ queue > 0
    /\ UNCHANGED <<entity, etag, blobs, upl>>
    /\ \E j \in Slots :
          /\ FirstFree(j)
          /\ inv' = [inv EXCEPT ![j] = Fresh("idca", "read")]
    /\ \/ queue' = queue - 1
       \/ UNCHANGED queue

\* a caller other than the pipeline POSTs to an endpoint of an existing item:
\* a retried stage call, or one of the request API calls
Endpoints == {"idca", "naa", "aa", "delete", "retry", "start"}
http_request ==
    /\ UNCHANGED <<search, retry, http>>
    /\ Exists
    /\ UNCHANGED <<entity, etag, blobs, queue, upl>>
    /\ \E j \in Slots, k \in Endpoints :
          /\ FirstFree(j)
          /\ inv' = [inv EXCEPT ![j] = Fresh(k, "read")]

\* ------------------------------------ ingestion  DELETE /requests/{id}
delete_request_get_entity(i) ==
    /\ UNCHANGED <<search, retry, http>>
    /\ At(i, "delete", "read")
    /\ UNCHANGED <<entity, etag, blobs, queue, upl>>
    /\ LET r == inv[i]
       IN \/ /\ Exists
             /\ Set(i, [r EXCEPT !.ent = entity, !.readStatus = StatusOf(entity),
                                 !.pc = "write"])
          \/ /\ StorageError
             /\ Set(i, Return(r, 404))

\* entity["status"] = "deleted"; update_entity(mode="merge")
delete_request_update(i) ==
    /\ UNCHANGED <<search, retry, http>>
    /\ At(i, "delete", "write")
    /\ UNCHANGED <<blobs, queue, upl>>
    /\ LET r == inv[i]
           e == Merge(r.ent, [status |-> "deleted", deleted_at |-> TS])
       IN \/ /\ LedgerMerge(e)
             /\ Set(i, Return([r EXCEPT !.writes = @ + 1], 200))
          \/ /\ StorageError /\ UNCHANGED <<entity, etag>>
             /\ Set(i, Return(r, 404))

\* ------------------------------------ ingestion  POST /requests/{id}/retry
retry_request_get_entity(i) ==
    /\ UNCHANGED <<search, retry, http>>
    /\ At(i, "retry", "read")
    /\ UNCHANGED <<entity, etag, blobs, queue, upl>>
    /\ LET r == inv[i]
       IN \/ /\ Exists
             /\ Set(i, [r EXCEPT !.ent = entity, !.readStatus = StatusOf(entity),
                                 !.pc = "write"])
          \/ /\ StorageError
             /\ Set(i, Return(r, 404))

\* entity["status"] = "retrying"; update_entity(mode="merge")
retry_request_update(i) ==
    /\ UNCHANGED <<search, retry, http>>
    /\ At(i, "retry", "write")
    /\ UNCHANGED <<blobs, queue, upl>>
    /\ LET r == inv[i]
           e == Merge(r.ent, [status |-> "retrying", retried_at |-> TS])
       IN \/ /\ LedgerMerge(e)
             /\ Set(i, Return([r EXCEPT !.writes = @ + 1], 200))
          \/ /\ StorageError /\ UNCHANGED <<entity, etag>>
             /\ Set(i, Return(r, 404))

\* ------------------------------------------------------- NAA  POST /assess
start_assessment_get_entity(i) ==
    /\ UNCHANGED <<search, retry, http>>
    /\ At(i, "start", "read")
    /\ UNCHANGED <<entity, etag, blobs, queue, upl>>
    /\ LET r == inv[i]
           s == Get(entity, "status", "none")
           got == [r EXCEPT !.ent = entity, !.readStatus = s]
       IN \/ /\ Exists
             /\ Set(i, IF s # "classified" THEN Return(got, 400)
                                            ELSE [got EXCEPT !.pc = "write"])
          \/ /\ StorageError
             /\ Set(i, Return(r, 404))

\* update_entity({status: "analyzing"}, mode="merge"), no etag condition
start_assessment_update(i) ==
    /\ UNCHANGED <<search, retry, http>>
    /\ At(i, "start", "write")
    /\ UNCHANGED <<blobs, queue, upl>>
    /\ LET r == inv[i]
       IN \/ /\ LedgerMerge([status |-> "analyzing"])
             /\ Set(i, Return([r EXCEPT !.writes = @ + 1], 202))
          \/ /\ StorageError /\ UNCHANGED <<entity, etag>>
             /\ Set(i, Return(r, 500))

\* ------------------------------------------------ readers of a stage output
\* len("{}"), the default of _get_naa_output_str
EmptyJson == 2

\* blob_client.download_blob().readall(); -1 stands for the exception of a
\* missing blob
Download(b, path) == IF path \in DOMAIN b THEN b[path] ELSE -1

\* aa _get_naa_output_str: the blob when the pointer property is set, else
\* the inline property, else "{}"
get_naa_output_str(e, b) ==
    IF Get(e, "naa_output_blob", "") # ""
    THEN Download(b, e["naa_output_blob"])
    ELSE LET v == Get(e, "naa_output", EmptyJson)
         IN IF v = 0 THEN EmptyJson ELSE v

\* ingestion _entity_to_response_dict: a set pointer is resolved into the
\* text property and removed; when the download raises the text property is
\* left as the row has it
Resolve(r, b, text, key) ==
    IF Get(r, key, "") # ""
    THEN Pop(IF Download(b, r[key]) # -1
             THEN Merge(r, text :> Download(b, r[key])) ELSE r, key)
    ELSE r
entity_to_response_dict(e, b) ==
    Resolve(Resolve(e, b, "naa_output", "naa_output_blob"),
            b, "aa_output", "aa_output_blob")

\* ============================================================ rest states
\* the row after upload and enqueue
QueuedEntity ==
    [filename |-> "f.pdf", status |-> "queued", uploaded_at |-> TS]

\* the row after an IDCA run that found an invention and whose NAA call did not connect
ClassifiedEntity ==
    [filename |-> "f.pdf", status |-> "classified", uploaded_at |-> TS,
     classifying_started_at |-> TS, idca_output |-> "Present"]

\* the row after an NAA run with a short output whose AA call did not connect
AssessedEntity ==
    ("naa_output" :> SmallLen) @@
    [filename |-> "f.pdf", status |-> "assessed", uploaded_at |-> TS,
     classifying_started_at |-> TS, idca_output |-> "Present",
     naa_started_at |-> TS, aa_error |-> TS]

\* the row after an NAA run with a large output whose AA call did not connect
AssessedBlobEntity ==
    [filename |-> "f.pdf", status |-> "assessed", uploaded_at |-> TS,
     classifying_started_at |-> TS, idca_output |-> "Present",
     naa_started_at |-> TS, naa_output_blob |-> NAABlobPath, aa_error |-> TS]

\* the manuscript, and the NAA output when the row points to its blob
BlobsOf(e) ==
    IF "naa_output_blob" \in DOMAIN e
    THEN (NAABlobPath :> (MaxTableChars + 1)) @@ ("f.pdf" :> SmallLen)
    ELSE "f.pdf" :> SmallLen

\* the item with row e and q queue messages after the upload handler and
\* every stage run so far have returned
Settled(e, q) ==
    /\ entity = e
    /\ etag = 1
    /\ blobs = BlobsOf(e)
    /\ queue = q
    /\ upl = "done"
    /\ search = NoSearch
    /\ retry = NoRetry
    /\ http = NoHttp

\* RaceN triggers of one stage have arrived for an item at rest
RaceInit(e, k) ==
    /\ Settled(e, 0)
    /\ inv = [i \in RaceIds |-> IF i <= RaceN THEN Fresh(k, "read") ELSE Idle]

\* ------------------------------------------- the whole pipeline of one item
\* the item before its upload, after its upload with the message still in the
\* queue, or at rest after the IDCA or the NAA stage
Init ==
    /\ \/ /\ entity = NoEntity
          /\ etag = 0
          /\ blobs = NoEntity
          /\ queue = 0
          /\ upl = "create"
          /\ search = NoSearch
          /\ retry = NoRetry
          /\ http = NoHttp
       \/ Settled(QueuedEntity, 1)
       \/ Settled(ClassifiedEntity, 0)
       \/ Settled(AssessedEntity, 0)
       \/ Settled(AssessedBlobEntity, 0)
    /\ inv = [i \in InvIds |-> Idle]

Next ==
    \/ upload
    \/ idca_queue_worker
    \/ http_request
    \/ \E i \in Slots : run_idca_get_entity(i)
    \/ \E i \in Slots : run_idca_claim(i)
    \/ \E i \in Slots : idca_get_manuscript_text(i)
    \/ \E i \in Slots : idca_mark_classifying_get(i)
    \/ \E i \in Slots : idca_mark_classifying_update(i)
    \/ \E i \in Slots : idca_execute_idca_agent(i)
    \/ \E i \in Slots : idca_mark_classified_get(i)
    \/ \E i \in Slots : idca_mark_classified_update(i)
    \/ \E i \in Slots : idca_post_naa(i)
    \/ \E i \in Slots : idca_post_aa(i)
    \/ \E i \in Slots : idca_aa_returned(i)
    \/ \E i \in Slots : idca_mark_completed_get(i)
    \/ \E i \in Slots : idca_mark_completed_update(i)
    \/ \E i \in Slots : run_novelty_analysis_get_entity(i)
    \/ \E i \in Slots : run_novelty_analysis_claim(i)
    \/ \E i \in Slots : run_novelty_analysis_logic(i)
    \/ \E i \in Slots : run_novelty_analysis_upload_blob(i)
    \/ \E i \in Slots : run_novelty_analysis_complete(i)
    \/ \E i \in Slots : run_novelty_analysis_post_aa(i)
    \/ \E i \in Slots : run_novelty_analysis_aa_returned(i)
    \/ \E i \in Slots : run_novelty_analysis_aa_error(i)
    \/ \E i \in Slots : run_novelty_analysis_failed(i)
    \/ \E i \in Slots : run_aa_get_entity(i)
    \/ \E i \in Slots : run_aa_claim(i)
    \/ \E i \in Slots : run_aa_reread(i)
    \/ \E i \in Slots : run_aa_agent(i)
    \/ \E i \in Slots : run_aa_upload_blob(i)
    \/ \E i \in Slots : run_aa_complete(i)
    \/ \E i \in Slots : delete_request_get_entity(i)
    \/ \E i \in Slots : delete_request_update(i)
    \/ \E i \in Slots : retry_request_get_entity(i)
    \/ \E i \in Slots : retry_request_update(i)
    \/ \E i \in Slots : start_assessment_get_entity(i)
    \/ \E i \in Slots : start_assessment_update(i)

Spec == Init /\ [][Next]_vars

\* ---------------------------------------- two NAA triggers race on classified
InitNAARace == RaceInit(ClassifiedEntity, "naa")
NextNAARace ==
    \/ \E i \in Slots : run_novelty_analysis_get_entity(i)
    \/ \E i \in Slots : run_novelty_analysis_claim(i)
    \/ \E i \in Slots : run_novelty_analysis_logic(i)
    \/ \E i \in Slots : run_novelty_analysis_upload_blob(i)
    \/ \E i \in Slots : run_novelty_analysis_complete(i)
    \/ \E i \in Slots : run_novelty_analysis_post_aa(i)
    \/ \E i \in Slots : run_novelty_analysis_aa_returned(i)
    \/ \E i \in Slots : run_novelty_analysis_aa_error(i)
    \/ \E i \in Slots : run_novelty_analysis_failed(i)
    \/ \E i \in Slots : run_aa_get_entity(i)
    \/ \E i \in Slots : run_aa_claim(i)
    \/ \E i \in Slots : run_aa_reread(i)
    \/ \E i \in Slots : run_aa_agent(i)
    \/ \E i \in Slots : run_aa_upload_blob(i)
    \/ \E i \in Slots : run_aa_complete(i)
SpecNAARace == InitNAARace /\ [][NextNAARace]_vars

\* ----------------------------------------- two AA triggers race on assessed
InitAARace == RaceInit(AssessedEntity, "aa")
NextAARace ==
    \/ \E i \in Slots : run_aa_get_entity(i)
    \/ \E i \in Slots : run_aa_claim(i)
    \/ \E i \in Slots : run_aa_reread(i)
    \/ \E i \in Slots : run_aa_agent(i)
    \/ \E i \in Slots : run_aa_upload_blob(i)
    \/ \E i \in Slots : run_aa_complete(i)
SpecAARace == InitAARace /\ [][NextAARace]_vars

\* ============================================ the progressive prior-art search
\* A query is the sequence of its characters. The queries tried are every
\* concatenation of at most MaxAtoms of these pieces, and the named ones.
MaxAtoms == 3
MaxTarget == 2
MaxUrls == 2

Atoms ==
    { <<"x">>, <<" ", "A", "N", "D", " ">>, <<" ", "A", "N", "D">>,
      <<"(">>, <<")">>, <<"\"">> }

RECURSIVE AtomStrings(_)
AtomStrings(k) ==
    IF k = 0 THEN {<< >>} ELSE {a \o s : a \in Atoms, s \in AtomStrings(k - 1)}

\* (A) AND (B) AND (C)
ThreeGroups ==
    <<"(", "A", ")", " ", "A", "N", "D", " ", "(", "B", ")",
      " ", "A", "N", "D", " ", "(", "C", ")">>

\* "a AND b"
QuotedPhrase == <<"\"", "a", " ", "A", "N", "D", " ", "b", "\"">>

\* (a AND b) AND "c AND d"
NestedAnd ==
    <<"(", "a", " ", "A", "N", "D", " ", "b", ")", " ", "A", "N", "D", " ",
      "\"", "c", " ", "A", "N", "D", " ", "d", "\"">>

\* robot ANDROID
Android ==
    <<"r", "o", "b", "o", "t", " ", "A", "N", "D", "R", "O", "I", "D">>

\* a and b
LowerCaseAnd == <<"a", " ", "a", "n", "d", " ", "b">>

Queries ==
    UNION {AtomStrings(k) : k \in 0..MaxAtoms}
        \cup {ThreeGroups, QuotedPhrase, LowerCaseAnd, NestedAnd, Android}

Targets == 1..MaxTarget
Urls == 1..MaxUrls
Providers == <<"OpenAlex", "PatentsView", "Semantic Scholar">>

\* str.upper() on the letters the queries use
UpperOf == [a |-> "A", b |-> "B", c |-> "C", d |-> "D", n |-> "N", x |-> "X"]
Upper(s) == [k \in 1..Len(s) |-> IF s[k] \in DOMAIN UpperOf THEN UpperOf[s[k]] ELSE s[k]]

\* s[i:j] of Python, i and j counted from 0
Slice(s, i, j) == SubSeq(s, i + 1, IF j < Len(s) THEN j ELSE Len(s))

RECURSIVE LStrip(_, _)
LStrip(s, cs) == IF s # << >> /\ Head(s) \in cs THEN LStrip(Tail(s), cs) ELSE s

RECURSIVE RStrip(_, _)
RStrip(s, cs) ==
    IF s # << >> /\ s[Len(s)] \in cs THEN RStrip(SubSeq(s, 1, Len(s) - 1), cs) ELSE s

\* str.strip(chars); without chars it strips white space
StripChars(s, cs) == RStrip(LStrip(s, cs), cs)
Strip(s) == StripChars(s, {" ", "\t", "\n"})

\* sep.join(blocks)
RECURSIVE Join(_, _)
Join(blocks, sep) ==
    IF blocks = << >> THEN << >>
    ELSE IF Len(blocks) = 1 THEN blocks[1]
    ELSE blocks[1] \o sep \o Join(Tail(blocks), sep)

AndSep == <<" ", "A", "N", "D", " ">>

at_boundary_any_depth(ucs, i, depth, in_quotes) ==
    ~in_quotes /\ Upper(Slice(ucs, i, i + 4)) = <<" ", "A", "N", "D">>

\* line 74: the test that ends a block at index i
at_boundary(ucs, i, depth, in_quotes) ==
    ~in_quotes /\ depth = 0 /\ Upper(Slice(ucs, i, i + 4)) = <<" ", "A", "N", "D">>

\* the while loop of split_ucs from index i on; cuts collects the indices at
\* which a block ended
RECURSIVE split_scan(_, _, _, _, _, _, _)
split_scan(ucs, i, current, depth, in_quotes, blocks, cuts) ==
    IF i >= Len(ucs)
    THEN [blocks |-> IF current # << >> THEN Append(blocks, Strip(current)) ELSE blocks,
          cuts |-> cuts]
    ELSE LET ch == ucs[i + 1]
             q == IF ch = "\"" THEN ~in_quotes ELSE in_quotes
             d == IF ch = "(" /\ ~in_quotes THEN depth + 1
                  ELSE IF ch = ")" /\ ~in_quotes THEN depth - 1
                  ELSE depth
         IN IF at_boundary(ucs, i, d, q)
            THEN split_scan(ucs, i + 4, << >>, d, q, Append(blocks, Strip(current)),
                            cuts \cup {i})
            ELSE split_scan(ucs, i + 1, Append(current, ch), d, q, blocks, cuts)

split_ucs(ucs) == split_scan(ucs, 0, << >>, 0, FALSE, << >>, {}).blocks

\* where split_ucs ended a block
split_cuts(ucs) == split_scan(ucs, 0, << >>, 0, FALSE, << >>, {}).cuts

\* what one provider call comes to: an exception or a list of records
Failure == [ok |-> FALSE, list |-> << >>]
Hit(u, p) == [url |-> u, source |-> p]
ProviderOutcomes(p) ==
    {Failure, [ok |-> TRUE, list |-> << >>]}
        \cup {[ok |-> TRUE, list |-> <<Hit(u, p)>>] : u \in Urls}
        \cup {[ok |-> TRUE, list |-> <<Hit(1, p), Hit(MaxUrls, p)>>]}

Outcomes == [1..3 -> UNION {ProviderOutcomes(Providers[k]) : k \in 1..3}]
Gathered == {res \in Outcomes : \A k \in 1..3 : res[k] \in ProviderOutcomes(Providers[k])}

\* combined: the lists of the providers that returned one, in task order
search_all_sources(res) ==
    (IF res[1].ok THEN res[1].list ELSE << >>)
        \o (IF res[2].ok THEN res[2].list ELSE << >>)
        \o (IF res[3].ok THEN res[3].list ELSE << >>)

\* the loop that appends every record whose url was not seen
RECURSIVE AccumulateAll(_, _, _, _)
AccumulateAll(LoR, seen_ids, results, added) ==
    IF results = << >> THEN [LoR |-> LoR, seen_ids |-> seen_ids, added |-> added]
    ELSE AccumulateAll(Append(LoR, Head(results)), seen_ids \cup {Head(results).url},
                       Tail(results), added + 1)

RECURSIVE Accumulate(_, _, _, _)
Accumulate(LoR, seen_ids, results, added) ==
    IF results = << >> THEN [LoR |-> LoR, seen_ids |-> seen_ids, added |-> added]
    ELSE IF Head(results).url \notin seen_ids
    THEN Accumulate(Append(LoR, Head(results)), seen_ids \cup {Head(results).url},
                    Tail(results), added + 1)
    ELSE Accumulate(LoR, seen_ids, Tail(results), added)

RemainingBlocksNext(blocks, i) == SubSeq(blocks, 1, i + 1) \o SubSeq(blocks, i + 3, Len(blocks))

\* blocks[:i] + blocks[i+1:], i counted from 0
RemainingBlocks(blocks, i) == SubSeq(blocks, 1, i) \o SubSeq(blocks, i + 2, Len(blocks))

\* the orders in which the three provider tasks can finish
CompletionOrders ==
    {<<1, 2, 3>>, <<1, 3, 2>>, <<2, 1, 3>>, <<2, 3, 1>>, <<3, 1, 2>>, <<3, 2, 1>>}

gather_as_completed(order, finished) == finished

\* asyncio.gather(*tasks, return_exceptions=True): finished[j] is the outcome
\* of the j-th task to finish, which is task order[j]; the result holds the
\* outcome of task k at index k
gather(order, finished) ==
    [k \in 1..3 |-> finished[CHOOSE j \in 1..3 : order[j] = k]]

gather_raises_first(finished) == \E j \in 1..3 : ~finished[j].ok

\* return_exceptions=True: the exception of a task is its outcome, the await
\* of gather raises nothing
gather_raises(finished) == FALSE

\* a provider failed in this fan-out and another returned a record
Partial(results_tuple) ==
    /\ \E k \in 1..3 : ~results_tuple[k].ok
    /\ \E k \in 1..3 : results_tuple[k].ok /\ results_tuple[k].list # << >>

\* the outcomes in the order in which the tasks finish
Finished(outcome, order) == [j \in 1..3 |-> outcome[order[j]]]

UrlsOf(results) == {results[k].url : k \in 1..Len(results)}

update_final_query_always(added_count, query, final_query) == query

\* lines 156-158: final_query becomes the query of a pass that added a record
update_final_query(added_count, query, final_query) ==
    IF added_count > 0 THEN query ELSE final_query

\* a call progressive_search(query, target)
Call(query, target) ==
    [pc |-> "full", query |-> query, target_total |-> target, ucs |-> << >>,
     LoR |-> << >>, seen_ids |-> {}, blocks |-> << >>, i |-> 0,
     final_query |-> << >>, ret |-> << >>,
     results_tuple |-> << >>,   \* what the fan-out under way has gathered
     sent |-> << >>,            \* the queries fanned out so far
     found |-> << >>,           \* the urls each finished pass returned
     cuts |-> {},               \* where split_ucs ended a block
     skipped |-> FALSE,         \* a returned record was dropped as already seen
     partial |-> FALSE]         \* a pass merged records while a provider failed

Pipeline == <<entity, etag, blobs, queue, upl, inv>>

\* lines 101-108: clean the query and fan the full query out
progressive_search_full_query ==
    /\ search.pc = "full"
    /\ UNCHANGED <<Pipeline, retry, http>>
    /\ \E outcome \in Gathered, order \in CompletionOrders :
          LET ucs == StripChars(Strip(search.query), {"\""})
          IN search' = [search EXCEPT
                 !.ucs = ucs, !.sent = <<ucs>>,
                 !.results_tuple = gather(order, Finished(outcome, order)),
                 !.pc = IF gather_raises(Finished(outcome, order))
                        THEN "raised" ELSE "full_merge"]

\* lines 108-117: accumulate the results of the full query, stop at the target
progressive_search_full_merge ==
    /\ search.pc = "full_merge"
    /\ UNCHANGED <<Pipeline, retry, http>>
    /\ LET results == search_all_sources(search.results_tuple)
           acc == Accumulate(<< >>, {}, results, 0)
           reached == Len(acc.LoR) >= search.target_total
       IN search' = [search EXCEPT
              !.LoR = acc.LoR, !.seen_ids = acc.seen_ids,
              !.results_tuple = << >>,
              !.found = <<UrlsOf(results)>>,
              !.skipped = acc.added < Len(results),
              !.partial = Partial(search.results_tuple),
              !.ret = IF reached THEN search.ucs ELSE << >>,
              !.pc = IF reached THEN "done" ELSE "split"]

\* lines 119-128: split the query, give up on a single block
progressive_search_split ==
    /\ search.pc = "split"
    /\ UNCHANGED <<Pipeline, retry, http>>
    /\ LET blocks == split_ucs(search.ucs)
       IN search' = [search EXCEPT
              !.blocks = blocks,
              !.cuts = split_cuts(search.ucs),
              !.final_query = IF Len(blocks) <= 1 THEN << >> ELSE search.ucs,
              !.ret = IF Len(blocks) <= 1 THEN search.ucs ELSE << >>,
              !.pc = IF Len(blocks) <= 1 THEN "done" ELSE "loop"]

\* lines 131-145: one turn of the ablation loop that does not break, up to
\* the fan-out of the query without block i
progressive_search_ablation ==
    /\ search.pc = "loop"
    /\ UNCHANGED <<Pipeline, retry, http>>
    /\ search.i < Len(search.blocks)
    /\ Len(search.LoR) < search.target_total
    /\ LET remaining_blocks == RemainingBlocks(search.blocks, search.i)
           query == Join(remaining_blocks, AndSep)
       IN IF remaining_blocks = << >>
          THEN search' = [search EXCEPT !.i = search.i + 1]
          ELSE \E outcome \in Gathered, order \in CompletionOrders :
                  search' = [search EXCEPT
                      !.sent = Append(search.sent, query),
                      !.results_tuple = gather(order, Finished(outcome, order)),
                      !.pc = IF gather_raises(Finished(outcome, order))
                             THEN "raised" ELSE "loop_merge"]

\* lines 145-158: accumulate the new results, remember the query if it added
progressive_search_ablation_merge ==
    /\ search.pc = "loop_merge"
    /\ UNCHANGED <<Pipeline, retry, http>>
    /\ LET query == search.sent[Len(search.sent)]
           new_results == search_all_sources(search.results_tuple)
           acc == Accumulate(search.LoR, search.seen_ids, new_results, 0)
       IN search' = [search EXCEPT
              !.LoR = acc.LoR, !.seen_ids = acc.seen_ids,
              !.results_tuple = << >>,
              !.found = Append(search.found, UrlsOf(new_results)),
              !.skipped = search.skipped \/ acc.added < Len(new_results),
              !.partial = search.partial \/ Partial(search.results_tuple),
              !.final_query = update_final_query(acc.added, query, search.final_query),
              !.i = search.i + 1,
              !.pc = "loop"]

\* lines 132-134 and 160: the loop breaks or runs out, final_query is returned
progressive_search_return ==
    /\ search.pc = "loop"
    /\ UNCHANGED <<Pipeline, retry, http>>
    /\ search.i >= Len(search.blocks) \/ Len(search.LoR) >= search.target_total
    /\ search' = [search EXCEPT !.ret = search.final_query, !.pc = "done"]

\* one call of progressive_search on any query, with providers that answer
\* anything; the item's pipeline stands still
InitSearch ==
    /\ retry = NoRetry
    /\ http = NoHttp
    /\ entity = NoEntity
    /\ etag = 0
    /\ blobs = NoEntity
    /\ queue = 0
    /\ upl = "done"
    /\ inv = [i \in InvIds |-> Idle]
    /\ \E query \in Queries, target \in Targets : search = Call(query, target)

NextSearch ==
    \/ progressive_search_full_query
    \/ progressive_search_full_merge
    \/ progressive_search_split
    \/ progressive_search_ablation
    \/ progressive_search_ablation_merge
    \/ progressive_search_return
SpecSearch == InitSearch /\ [][NextSearch]_vars

\* split_ucs on any text: the splitting step of a search whose query is
\* taken as it is
InitSplit ==
    /\ retry = NoRetry
    /\ http = NoHttp
    /\ entity = NoEntity
    /\ etag = 0
    /\ blobs = NoEntity
    /\ queue = 0
    /\ upl = "done"
    /\ inv = [i \in InvIds |-> Idle]
    /\ \E ucs \in Queries :
          search = [Call(ucs, MaxTarget) EXCEPT !.ucs = ucs, !.pc = "split"]

NextSplit == progressive_search_split
SpecSplit == InitSplit /\ [][NextSplit]_vars

\* ===================================== the bounded retry wrapper and AA's use
MaxAttempts == 5

\* random.uniform(0, 1), at its ends
Jitters == {0, 1}

\* what the oracle does in one call: the service call raises, the run leaves
\* no assistant message, or it leaves a reply that is JSON or is not
Replies == {"error", "no output", "text", "json"}

\* the replies of the oracle to the successive calls
Scripts == [1..MaxAttempts -> Replies]

None == [kind |-> "None", call |-> 0]

\* _exec, the n-th call: _run_aa returns the text of the last assistant
\* message whatever it holds, raises RuntimeError when there is none, and
\* lets an exception of the service through
exec_json_only(reply, n) ==
    [raised |-> reply # "json", what |-> [kind |-> reply, call |-> n]]

exec(reply, n) ==
    [raised |-> reply \in {"error", "no output"}, what |-> [kind |-> reply, call |-> n]]

keep_first_exception(last_exception, e) ==
    IF last_exception = None THEN e ELSE last_exception

\* line 29: last_exception = e
keep_exception(last_exception, e) == e

\* run_aggregation_agent calls retry_agent(_exec, "Aggregation Agent", max_attempts)
CallRetry(script, max_attempts) ==
    [pc |-> "try", script |-> script, max_attempts |-> max_attempts,
     attempt |-> 1, last_exception |-> None,
     calls |-> 0,           \* invocations of the operation so far
     sleeps |-> 0,          \* calls of time.sleep so far
     sleep_time |-> 0,      \* the last delay
     result |-> None, raised |-> None, final_report |-> None]

Others == <<entity, etag, blobs, queue, upl, inv, search, http>>

\* lines 25-29 and 38: one attempt of the operation
retry_agent_attempt ==
    /\ retry.pc = "try"
    /\ UNCHANGED Others
    /\ LET n == retry.calls + 1
           r == exec(retry.script[n], n)
       IN IF ~r.raised
          THEN retry' = [retry EXCEPT !.calls = n, !.result = r.what, !.pc = "returned"]
          ELSE retry' = [retry EXCEPT
                   !.calls = n,
                   !.last_exception = keep_exception(retry.last_exception, r.what),
                   !.pc = IF retry.attempt < retry.max_attempts
                          THEN "sleep" ELSE "exhausted"]

\* lines 32-36: the delay before the next attempt
retry_agent_sleep ==
    /\ retry.pc = "sleep"
    /\ UNCHANGED Others
    /\ \E jitter \in Jitters :
          retry' = [retry EXCEPT
              !.sleep_time = 2 ^ retry.attempt + jitter,
              !.sleeps = retry.sleeps + 1,
              !.attempt = retry.attempt + 1,
              !.pc = "try"]

\* line 40: raise last_exception
retry_agent_raise ==
    /\ retry.pc = "exhausted"
    /\ UNCHANGED Others
    /\ retry' = [retry EXCEPT !.raised = retry.last_exception, !.pc = "raised"]

\* aa.py lines 234-245 with table=None: the result is the final report
run_aggregation_agent_return ==
    /\ retry.pc = "returned"
    /\ UNCHANGED Others
    /\ retry' = [retry EXCEPT !.final_report = retry.result, !.pc = "done"]

\* one call of the bounded retry_agent by run_aggregation_agent, for every
\* attempt ceiling and every sequence of oracle replies
InitRetry ==
    /\ entity = NoEntity
    /\ etag = 0
    /\ blobs = NoEntity
    /\ queue = 0
    /\ upl = "done"
    /\ inv = [i \in InvIds |-> Idle]
    /\ search = NoSearch
    /\ http = NoHttp
    /\ \E script \in Scripts, max_attempts \in 1..MaxAttempts :
          retry = CallRetry(script, max_attempts)

NextRetry ==
    \/ retry_agent_attempt
    \/ retry_agent_sleep
    \/ retry_agent_raise
    \/ run_aggregation_agent_return
SpecRetry == InitRetry /\ [][NextRetry]_vars

\* ================================== the unbounded retry wrapper and IDCA's use
\* the invocations of the operation the model tells apart; the oracle answers
\* every later invocation as it answered invocation MaxCalls
MaxCalls == 6

ForeverScripts == [1..MaxCalls -> Replies]

Min(a, b) == IF a < b THEN a ELSE b

\* the reply of the oracle to the n-th invocation
ReplyAt(script, n) == script[Min(n, MaxCalls)]

\* idca.py lines 206-249, the n-th call: an exception of the service goes
\* through, a run without assistant message raises RuntimeError, a reply that
\* json.loads rejects raises RuntimeError, and a JSON reply is returned
execute_idca_agent(reply, n) ==
    [raised |-> reply # "json", what |-> [kind |-> reply, call |-> n]]

on_exception_bounded(calls) == IF calls < MaxAttempts THEN "loop" ELSE "raised"

\* idca_func/retry.py lines 24-28: the failure is printed and the loop goes on
on_exception(calls) == "loop"

\* run_idca calls retry_agent(execute_idca_agent, "IDCA Agent")
CallForever(script) ==
    [pc |-> "loop", script |-> script,
     calls |-> 0,           \* invocations of the operation so far, up to MaxCalls
     printed |-> 0,         \* failures printed so far, up to MaxCalls
     result |-> None, raised |-> None, response |-> None]

\* idca_func/retry.py lines 20-28: one turn of while True
retry_agent_turn ==
    /\ retry.pc = "loop"
    /\ UNCHANGED Others
    /\ LET n == Min(retry.calls + 1, MaxCalls)
           r == execute_idca_agent(ReplyAt(retry.script, retry.calls + 1), n)
       IN IF ~r.raised
          THEN retry' = [retry EXCEPT !.calls = n, !.result = r.what, !.pc = "returned"]
          ELSE retry' = [retry EXCEPT
                   !.calls = n,
                   !.printed = Min(retry.printed + 1, MaxCalls),
                   !.raised = IF on_exception(n) = "raised" THEN r.what ELSE None,
                   !.pc = on_exception(n)]

\* idca.py lines 261-263: response = result["response"]
run_idca_result ==
    /\ retry.pc = "returned"
    /\ UNCHANGED Others
    /\ retry' = [retry EXCEPT !.response = retry.result, !.pc = "done"]

\* one call of the unbounded retry_agent by run_idca, for every sequence of
\* oracle replies
InitRetryForever ==
    /\ entity = NoEntity
    /\ etag = 0
    /\ blobs = NoEntity
    /\ queue = 0
    /\ upl = "done"
    /\ inv = [i \in InvIds |-> Idle]
    /\ search = NoSearch
    /\ http = NoHttp
    /\ \E script \in ForeverScripts : retry = CallForever(script)

NextRetryForever ==
    \/ retry_agent_turn
    \/ run_idca_result
SpecRetryForever == InitRetryForever /\ [][NextRetryForever]_vars

\* the loop holds no wait: a thread inside retry_agent keeps taking turns
LiveRetryForever == SpecRetryForever /\ WF_vars(NextRetryForever)

\* ================================= the provider adapters and their page fetches
MAX_RETRIES == 5

\* callers of fetch_semantic_scholar_page that run in one event loop
MaxCallers == 2

\* page fetches one such caller makes
MaxFetches == 2

\* result pages one search_openalex call reads
MaxPages == 2

Callers == 1..MaxCallers

\* what one HTTP attempt meets: status 200 with a body that holds results, that
\* holds none, that is JSON without the result fields, or that is not JSON;
\* status 429; any other status; httpx.RequestError
HttpReplies ==
    {"200 results", "200 empty", "200 other", "200 invalid", "429", "status", "transport"}

Retryable == {"429", "transport"}

\* locals of one adapter call, with the history of its HTTP attempts
Task(provider, kind) ==
    [pc |-> IF kind = "page" THEN "caller" ELSE "start",
     provider |-> provider,
     kind |-> kind,          \* the query of the page being fetched
     page |-> 1,
     attempt |-> 0,
     remaining |-> 0,        \* seconds left of asyncio.sleep
     why |-> "none",         \* what the sleep follows
     data |-> "unset",       \* what the page fetch returned
     last |-> "none",        \* reply to the latest HTTP attempt of the page
     fetches |-> 0,          \* page fetches started
     fallbacks |-> 0,        \* sanitized fallback queries issued
     first |-> "unset",      \* how the first page of the original query ended
     retryable |-> TRUE,     \* every HTTP attempt so far met 429 or RequestError
     exhausted |-> FALSE,    \* some page fetch used up its attempts
     have |-> FALSE,         \* results holds a record
     ret |-> "unset",
     raised |-> FALSE]

\* one second passes
Later(t) ==
    IF t.pc \in {"limit_sleep", "backoff"} /\ t.remaining > 0
    THEN [t EXCEPT !.remaining = t.remaining - 1]
    ELSE t

\* client.get starts a request; for Semantic Scholar the gap to the start of
\* the previous request is recorded (-1: there was none)
Sent(h, provider) ==
    IF provider # "Semantic Scholar" THEN h
    ELSE [h EXCEPT
            !.since_sent = 0,
            !.gap = IF h.since_sent = -1 THEN h.gap
                    ELSE IF h.gap = -1 THEN h.since_sent
                    ELSE Min(h.gap, h.since_sent)]

\* line 500, line 518: _semantic_scholar_last_request = loop.time()
Stamped(h) == [h EXCEPT !.since_request = 0]

needs_fallback_unless_results(kind, data) ==
    kind = "original" /\ data # "200 results"

\* lines 135-141, 570-576: data is None or is_empty, after the original query
needs_fallback(kind, data) ==
    kind = "original" /\ data \in {"None", "200 empty"}

in_range_and_one(attempt) == attempt < MAX_RETRIES + 1

\* for attempt in range(MAX_RETRIES)
in_range(attempt) == attempt < MAX_RETRIES

\* wait after a 429: 2**attempt, for Semantic Scholar max(2**attempt, 2.0)
wait_429(provider, attempt) ==
    IF provider = "Semantic Scholar" /\ 2 ^ attempt < 2 THEN 2 ELSE 2 ^ attempt

\* search_openalex lines 100-130, search_semantic_scholar lines 548-566,
\* search_patentsview lines 309-367: up to the first page fetch
search_start(c) ==
    /\ http.lock \in 0..MaxCallers /\ c \in DOMAIN http.tasks
    /\ http.tasks[c].pc = "start"
    /\ UNCHANGED <<entity, etag, blobs, queue, upl, inv, search, retry>>
    /\ LET t == http.tasks[c]
       IN IF t.provider = "PatentsView"
          THEN \E usable \in BOOLEAN :   \* the API key is set and the query holds a keyword
                  http' = [http EXCEPT !.tasks[c] =
                      IF usable THEN [t EXCEPT !.kind = "primary", !.pc = "fetch"]
                      ELSE [t EXCEPT !.ret = "empty list", !.pc = "done"]]
          ELSE http' = [http EXCEPT !.tasks[c] = [t EXCEPT !.kind = "original", !.pc = "fetch"]]

\* a caller in the event loop calls fetch_semantic_scholar_page
fetch_call(c) ==
    /\ http.lock \in 0..MaxCallers /\ c \in DOMAIN http.tasks
    /\ LET t == http.tasks[c]
       IN /\ t.kind = "page"
          /\ t.pc \in {"caller", "fetched"}
          /\ t.fetches < MaxFetches
          /\ http' = [http EXCEPT !.tasks[c] = [t EXCEPT !.pc = "fetch"]]
    /\ UNCHANGED <<entity, etag, blobs, queue, upl, inv, search, retry>>

\* fetch_semantic_scholar_page lines 492-504 (the lock is taken, the wait is
\* started or the timestamp is set and the first request sent); fetch_page
\* line 37-39 and fetch_patents_with_retry lines 268-270 (the first request)
fetch_enter(c) ==
    /\ http.lock \in 0..MaxCallers /\ c \in DOMAIN http.tasks
    /\ http.tasks[c].pc = "fetch"
    /\ UNCHANGED <<entity, etag, blobs, queue, upl, inv, search, retry>>
    /\ LET t == http.tasks[c]
           u == [t EXCEPT !.attempt = 0, !.last = "none", !.data = "unset",
                          !.fetches = t.fetches + 1]
       IN IF t.provider = "Semantic Scholar"
          THEN /\ http.lock = 0
               /\ IF http.since_request < 1
                  THEN http' = [http EXCEPT
                           !.lock = c,
                           !.tasks[c] = [u EXCEPT !.pc = "limit_sleep",
                                                  !.remaining = 1 - http.since_request]]
                  ELSE http' = [Sent(Stamped(http), t.provider) EXCEPT
                           !.tasks[c] = [u EXCEPT !.pc = "wait"]]
          ELSE http' = [http EXCEPT !.tasks[c] = [u EXCEPT !.pc = "wait"]]

\* lines 499-504: the wait inside the lock is over
fetch_limit_wake(c) ==
    /\ http.lock = c /\ c \in DOMAIN http.tasks
    /\ http.tasks[c].pc = "limit_sleep"
    /\ http.tasks[c].remaining = 0
    /\ UNCHANGED <<entity, etag, blobs, queue, upl, inv, search, retry>>
    /\ http' = [Sent(Stamped(http), http.tasks[c].provider) EXCEPT
                   !.lock = 0,
                   !.tasks[c].pc = "wait"]

\* the reply to one attempt: fetch_semantic_scholar_page lines 504-532,
\* fetch_page lines 39-53, fetch_patents_with_retry lines 270-292
fetch_response(c) ==
    /\ http.lock \in 0..MaxCallers /\ c \in DOMAIN http.tasks
    /\ http.tasks[c].pc = "wait"
    /\ UNCHANGED <<entity, etag, blobs, queue, upl, inv, search, retry>>
    /\ \E reply \in HttpReplies :
          LET t == http.tasks[c]
              u == [t EXCEPT !.last = reply,
                             !.retryable = t.retryable /\ reply \in Retryable]
          IN http' = [http EXCEPT !.tasks[c] =
                CASE reply \in {"200 results", "200 empty", "200 other"} ->
                        [u EXCEPT !.data = reply, !.pc = "fetched"]
                  [] reply = "200 invalid" ->
                        \* resp.json() raises; only search_patentsview catches it
                        IF t.provider = "PatentsView" /\ t.kind # "page"
                        THEN [u EXCEPT !.ret = "empty list", !.pc = "done"]
                        ELSE [u EXCEPT !.raised = TRUE, !.pc = "done"]
                  [] reply = "429" ->
                        [u EXCEPT !.pc = "backoff", !.why = "429",
                                  !.remaining = wait_429(t.provider, t.attempt)]
                  [] reply = "status" ->
                        [u EXCEPT !.data = "None", !.pc = "fetched"]
                  [] reply = "transport" ->
                        IF t.attempt = MAX_RETRIES - 1
                        THEN [u EXCEPT !.data = "None", !.exhausted = TRUE, !.pc = "fetched"]
                        ELSE [u EXCEPT !.pc = "backoff", !.why = "error",
                                       !.remaining = 2 ^ t.attempt]]

\* the sleep after a 429 or a RequestError is over: lines 515-518 (Semantic
\* Scholar sets the timestamp inside the lock after a 429), then the next turn
\* of the loop sends the next request, or the loop ends and None is returned
fetch_backoff_wake(c) ==
    /\ http.lock \in 0..MaxCallers /\ c \in DOMAIN http.tasks
    /\ http.tasks[c].pc = "backoff"
    /\ http.tasks[c].remaining = 0
    /\ UNCHANGED <<entity, etag, blobs, queue, upl, inv, search, retry>>
    /\ LET t == http.tasks[c]
           stamps == t.provider = "Semantic Scholar" /\ t.why = "429"
           h == IF stamps THEN Stamped(http) ELSE http
       IN /\ stamps => http.lock = 0
          /\ IF in_range(t.attempt + 1)
             THEN http' = [Sent(h, t.provider) EXCEPT
                      !.tasks[c] = [t EXCEPT !.attempt = t.attempt + 1, !.pc = "wait"]]
             ELSE http' = [h EXCEPT
                      !.tasks[c] = [t EXCEPT !.data = "None", !.exhausted = TRUE,
                                             !.pc = "fetched"]]

\* the adapter after a page fetch returned: search_openalex lines 132-208,
\* search_semantic_scholar lines 568-640, search_patentsview lines 369-443
search_continue(c) ==
    /\ http.lock \in 0..MaxCallers /\ c \in DOMAIN http.tasks
    /\ http.tasks[c].pc = "fetched"
    /\ http.tasks[c].kind # "page"
    /\ UNCHANGED <<entity, etag, blobs, queue, upl, inv, search, retry>>
    /\ LET t == http.tasks[c]
           u == IF t.kind = "original"
                THEN [t EXCEPT !.first = IF t.data = "None" THEN t.last ELSE t.data]
                ELSE t
           returns == [u EXCEPT !.ret = IF u.have THEN "results" ELSE "empty list",
                                !.pc = "done"]
           found == [u EXCEPT !.have = TRUE, !.ret = "results", !.pc = "done"]
       IN CASE needs_fallback(t.kind, t.data) ->
                  http' = [http EXCEPT !.tasks[c] =
                      [u EXCEPT !.kind = "fallback", !.fallbacks = t.fallbacks + 1,
                                !.pc = "fetch"]]
            [] ~needs_fallback(t.kind, t.data) /\ t.data # "200 results" ->
                  \* the fallback failed or is empty, the primary query failed,
                  \* a later page failed, or the body holds no result
                  http' = [http EXCEPT !.tasks[c] = returns]
            [] ~needs_fallback(t.kind, t.data) /\ t.data = "200 results" ->
                  IF t.provider = "OpenAlex" /\ t.page < MaxPages
                  THEN \E more \in BOOLEAN :   \* len(results) < limit and page < ceil(count / 200)
                          http' = [http EXCEPT !.tasks[c] =
                              IF more
                              THEN [u EXCEPT !.have = TRUE, !.kind = "next",
                                             !.page = t.page + 1, !.pc = "fetch"]
                              ELSE found]
                  ELSE http' = [http EXCEPT !.tasks[c] = found]

\* one second passes on the clock of the event loop
tick ==
    /\ http.lock \in 0..MaxCallers
    /\ UNCHANGED <<entity, etag, blobs, queue, upl, inv, search, retry>>
    /\ http' = [http EXCEPT
           !.since_request = 1,
           !.since_sent = IF http.since_sent = -1 THEN -1 ELSE 1,
           !.tasks = [c \in DOMAIN http.tasks |-> Later(http.tasks[c])]]
    /\ http' # http

HttpRest ==
    /\ entity = NoEntity
    /\ etag = 0
    /\ blobs = NoEntity
    /\ queue = 0
    /\ upl = "done"
    /\ inv = [i \in InvIds |-> Idle]
    /\ search = NoSearch
    /\ retry = NoRetry

\* one call of one provider adapter, as search_all_sources makes it; the
\* timestamp is 0.0 at import and the clock of the loop is far from 0
InitAdapter ==
    /\ HttpRest
    /\ \E provider \in {Providers[k] : k \in 1..Len(Providers)} :
          http = [lock |-> 0, since_request |-> 1, since_sent |-> -1, gap |-> -1,
                  tasks |-> [c \in {1} |-> Task(provider, "none")]]

NextAdapter ==
    \/ \E c \in Callers : search_start(c)
    \/ \E c \in Callers : fetch_enter(c)
    \/ \E c \in Callers : fetch_limit_wake(c)
    \/ \E c \in Callers : fetch_response(c)
    \/ \E c \in Callers : fetch_backoff_wake(c)
    \/ \E c \in Callers : search_continue(c)
    \/ tick
SpecAdapter == InitAdapter /\ [][NextAdapter]_vars

\* callers of fetch_semantic_scholar_page in one event loop
InitSpacing ==
    /\ HttpRest
    /\ http = [lock |-> 0, since_request |-> 1, since_sent |-> -1, gap |-> -1,
               tasks |-> [c \in Callers |-> Task("Semantic Scholar", "page")]]

NextSpacing ==
    \/ \E c \in Callers : fetch_call(c)
    \/ \E c \in Callers : fetch_enter(c)
    \/ \E c \in Callers : fetch_limit_wake(c)
    \/ \E c \in Callers : fetch_response(c)
    \/ \E c \in Callers : fetch_backoff_wake(c)
    \/ tick
SpecSpacing == InitSpacing /\ [][NextSpacing]_vars

\* ================================== the NAA stage logic, steps 12 to 17 in detail
\* references one search returns
MaxRefs == 6

MAX_RMS_TO_ASSESS == 5

\* "except Exception" of run_steps_8_to_12 lets nothing of the search through
search_raises_on_failure(outcome) == outcome = "raised"

search_raises(outcome) == FALSE

\* function_app.py lines 261-281: the "lor" of the output, as the number of
\* records of the search result it keeps (they are a sublist of it)
Listed(lor, stored, assessed) ==
    LET filtered == IF assessed > 0 /\ stored > 0
                    THEN (IF stored = lor THEN assessed ELSE lor)
                    ELSE 0
    IN IF filtered > 0 THEN filtered ELSE lor

\* function_app.py lines 224-226 and naa_test.py lines 374-463: the manuscript
\* is read, steps 8-11 build the query, step 12 searches inside try/except
run_steps_8_to_12(i) ==
    /\ UNCHANGED <<search, retry, http>>
    /\ At(i, "naa", "logic")
    /\ inv[i].naa.step = "none"
    /\ UNCHANGED <<entity, etag, blobs, queue, upl>>
    /\ LET r == inv[i]
       IN \/ \E outcome \in {"raised", "returned"}, k \in 0..MaxRefs :
                /\ outcome = "raised" => k = 0
                /\ Set(i, IF search_raises(outcome)
                          THEN [r EXCEPT !.raised = TRUE, !.err = SmallLen, !.pc = "fail",
                                         !.naa = [step |-> "failed", search |-> outcome]]
                          ELSE [r EXCEPT !.naa =
                                  [step |-> "rms", search |-> outcome, lor |-> k,
                                   rm |-> "unset", stored |-> 0,
                                   assess |-> "unset", assessed |-> 0, listed |-> 0]])
          \/ \E m \in ErrLens :
                Set(i, [r EXCEPT !.raised = TRUE, !.err = m, !.pc = "fail"])

\* function_app.py lines 231-237: the stored blob names, or the exception that
\* is logged
download_and_store_rms(i) ==
    /\ UNCHANGED <<search, retry, http>>
    /\ At(i, "naa", "logic")
    /\ inv[i].naa.step = "rms"
    /\ UNCHANGED <<entity, etag, blobs, queue, upl>>
    /\ LET r == inv[i]
       IN \/ \E s \in 0..r.naa.lor :
                Set(i, [r EXCEPT !.naa.rm = "returned", !.naa.stored = s,
                                 !.naa.step = "assess"])
          \/ Set(i, [r EXCEPT !.naa.rm = "raised", !.naa.step = "assess"])

\* function_app.py lines 242-253: the assessments of the first
\* MAX_RMS_TO_ASSESS stored references, of blobs listed in the container when
\* no name was stored, or the exception that is logged
assess_all_rms(i) ==
    /\ UNCHANGED <<search, retry, http>>
    /\ At(i, "naa", "logic")
    /\ inv[i].naa.step = "assess"
    /\ UNCHANGED <<entity, etag, blobs, queue, upl>>
    /\ LET r == inv[i]
           most == IF r.naa.stored > 0 THEN Min(r.naa.stored, MAX_RMS_TO_ASSESS)
                   ELSE MAX_RMS_TO_ASSESS
       IN IF r.naa.lor = 0
          THEN Set(i, [r EXCEPT !.naa.assess = "skipped", !.naa.step = "assemble"])
          ELSE \/ \E a \in 0..most :
                     Set(i, [r EXCEPT !.naa.assess = "returned", !.naa.assessed = a,
                                      !.naa.step = "assemble"])
               \/ Set(i, [r EXCEPT !.naa.assess = "raised", !.naa.step = "assemble"])

\* function_app.py lines 256-293: the output is assembled and serialized
run_novelty_analysis_assemble(i) ==
    /\ UNCHANGED <<search, retry, http>>
    /\ At(i, "naa", "logic")
    /\ inv[i].naa.step = "assemble"
    /\ UNCHANGED <<entity, etag, blobs, queue, upl>>
    /\ LET r == [inv[i] EXCEPT
                   !.ranLogic = TRUE,
                   !.naa.listed = Listed(inv[i].naa.lor, inv[i].naa.stored, inv[i].naa.assessed),
                   !.naa.step = "done"]
       IN \E n \in NAAOutLens :
             Set(i, [r EXCEPT !.out = n,
                       !.pc = IF n > MaxTableChars THEN "blob" ELSE "complete"])

\* one NAA trigger for an item at rest after IDCA
InitNAALogic ==
    /\ Settled(ClassifiedEntity, 0)
    /\ inv = [i \in InvIds |-> IF i = 1 THEN Fresh("naa", "read") ELSE Idle]

NextNAALogic ==
    \/ \E i \in Slots : run_novelty_analysis_get_entity(i)
    \/ \E i \in Slots : run_novelty_analysis_claim(i)
    \/ \E i \in Slots : run_steps_8_to_12(i)
    \/ \E i \in Slots : download_and_store_rms(i)
    \/ \E i \in Slots : assess_all_rms(i)
    \/ \E i \in Slots : run_novelty_analysis_assemble(i)
    \/ \E i \in Slots : run_novelty_analysis_upload_blob(i)
    \/ \E i \in Slots : run_novelty_analysis_complete(i)
    \/ \E i \in Slots : run_novelty_analysis_post_aa(i)
    \/ \E i \in Slots : run_novelty_analysis_aa_returned(i)
    \/ \E i \in Slots : run_novelty_analysis_aa_error(i)
    \/ \E i \in Slots : run_novelty_analysis_failed(i)
    \/ \E i \in Slots : run_aa_get_entity(i)
    \/ \E i \in Slots : run_aa_claim(i)
    \/ \E i \in Slots : run_aa_reread(i)
    \/ \E i \in Slots : run_aa_agent(i)
    \/ \E i \in Slots : run_aa_upload_blob(i)
    \/ \E i \in Slots : run_aa_complete(i)
SpecNAALogic == InitNAALogic /\ [][NextNAALogic]_vars

\* ================================================================= claims
Invs(k) == {i \in Slots : inv[i].kind = k}
Claimers(k) == {i \in Invs(k) : inv[i].claimed}

\* C1: of the NAA invocations racing on a classified item at most one writes
\* analyzing, and it goes on to the stage logic; an invocation that did not
\* claim runs no stage logic, writes nothing and triggers no AA; it answers
\* 200 when it saw another status or a version conflict; when no storage
\* failure hit the claim steps, exactly one invocation has claimed.
C1_NAAClaimRace ==
    /\ Cardinality(Claimers("naa")) <= 1
    /\ \A i \in Claimers("naa") : inv[i].pc = "logic" \/ inv[i].ranLogic
    /\ \A i \in Invs("naa") \ Claimers("naa") :
          /\ ~inv[i].ranLogic /\ inv[i].writes = 0
          /\ ~inv[i].triggered /\ inv[i].child = 0
          /\ Done(i) /\ inv[i].claimErr # "other" => inv[i].http = 200
    /\ (\A i \in Invs("naa") : inv[i].pc \notin {"read", "claim"}
                               /\ inv[i].claimErr # "other")
          => Cardinality(Claimers("naa")) = 1

\* both invocations are finished: one claimed and ran, the other lost the
\* conditional write
C1_Witness ==
    \E i, j \in Invs("naa") :
        /\ Done(i) /\ inv[i].claimed /\ inv[i].ranLogic
        /\ Done(j) /\ inv[j].claimErr = "conflict" /\ inv[j].http = 200

\* C2 (as claimed): of the AA invocations for an assessed item, at most one
\* claims and at most one runs the aggregation agent.
C2_AAAtMostOneClaim ==
    /\ Cardinality(Claimers("aa")) <= 1
    /\ Cardinality({i \in Invs("aa") : inv[i].ranLogic}) <= 1

\* C3 (as claimed): of the IDCA triggers that arrive while the item is
\* queued, at most one executes idca.run_idca.
C3_IDCAAtMostOneRun ==
    Cardinality({i \in Invs("idca") :
                    inv[i].arrived = "queued" /\ inv[i].ranLogic}) <= 1

\* C4 (as claimed): an IDCA invocation writes its claim (classifying) only
\* when the status it read is queued, the precondition of the IDCA stage.
C4_IDCAClaimsOnlyFromQueued ==
    \A i \in Claimers("idca") : inv[i].readStatus = "queued"

\* C5: an NAA invocation that read a status other than classified, and an AA
\* invocation that read a status other than assessed, has returned 200 in
\* that same step, and has written nothing to the table or the blob store,
\* claimed nothing, run no stage logic and triggered no stage.
NoOp(i) ==
    /\ Done(i) /\ inv[i].http = 200
    /\ inv[i].writes = 0 /\ ~inv[i].claimed /\ ~inv[i].ranLogic
    /\ ~inv[i].triggered /\ inv[i].child = 0

C5_NoOpOnMismatch ==
    /\ \A i \in Invs("naa") :
          inv[i].readStatus \notin {"?", "classified"} => NoOp(i)
    /\ \A i \in Invs("aa") :
          inv[i].readStatus \notin {"?", "assessed"} => NoOp(i)

\* an NAA and an AA invocation have both met another status and returned
C5_Witness ==
    /\ \E i \in Invs("naa") : inv[i].readStatus = "uploaded" /\ NoOp(i)
    /\ \E i \in Invs("aa") : inv[i].readStatus = "uploaded" /\ NoOp(i)

\* C6 (as claimed): in every stage an invocation whose read or claim write
\* failed for another reason than a version mismatch runs no stage logic and
\* ends as a failure (HTTP 500).
Stages == {"idca", "naa", "aa"}
C6_ClaimErrorIsStageFailure ==
    \A i \in Slots :
        inv[i].kind \in Stages /\ inv[i].claimErr = "other"
            => ~inv[i].ranLogic /\ (Done(i) => inv[i].http = 500)

\* C7 (as claimed): no step moves the status backward in the order uploaded,
\* queued, classifying, classified, analyzing, assessed, completed.
Order ==
    <<"uploaded", "queued", "classifying", "classified", "analyzing",
      "assessed", "completed">>
InOrder(st) == \E k \in DOMAIN Order : Order[k] = st
Rank(st) == CHOOSE k \in DOMAIN Order : Order[k] = st
C7_StatusNeverMovesBackward ==
    [][InOrder(StatusOf(entity)) /\ InOrder(StatusOf(entity'))
          => Rank(StatusOf(entity)) <= Rank(StatusOf(entity'))]_vars

\* C8 (as claimed): the status of the row is always one of the nine values
\* of the specification.
SpecStatuses ==
    {"uploaded", "queued", "classifying", "classified", "analyzing",
     "assessed", "completed", "failed", "deleted"}
C8_ClosedStatusSet == Exists => StatusOf(entity) \in SpecStatuses

\* C8 (amended): the status of the row is always one of the nine values of
\* the specification or one of enqueue_failed (upload) and retrying
\* (retry_request).
C8_StatusSetOfTheCode ==
    Exists => StatusOf(entity) \in SpecStatuses \cup {"enqueue_failed", "retrying"}

\* retry_request has written its status
C8_Witness == Exists /\ StatusOf(entity) = "retrying"

\* C9 (as claimed): when an invocation of a stage that had claimed the item
\* ends after its stage logic raised, the row has status failed and an error
\* string.
C9_StageFailureIsRecorded ==
    [][\A i \in Slots :
          (/\ inv[i].kind \in Stages /\ inv[i].claimed
           /\ ~Done(i) /\ inv'[i].pc = "done" /\ inv'[i].raised)
              => StatusOf(entity') = "failed" /\ "error" \in DOMAIN entity']_vars

FailedWrite(old, new) ==
    /\ StatusOf(new) = "failed"
    /\ "error" \in DOMAIN new
    /\ new["error"] <= ErrMax
    /\ DOMAIN new = DOMAIN old \cup {"status", "error"}
    /\ \A f \in DOMAIN old \ {"status", "error"} : new[f] = old[f]

C11_FailedIsStable ==
    \A i \in Slots :
        (/\ inv[i].kind \in Stages /\ inv[i].arrived = "failed"
         /\ inv[i].readStatus \in {"?", "failed"}
         /\ StatusOf(entity) = "failed")
            => ~inv[i].claimed /\ ~inv[i].ranLogic /\ inv[i].writes = 0

\* C12 (as claimed): no write of a stage invocation moves the status of a
\* row that is marked deleted away from deleted.
StageWrites(i) == inv[i].kind \in Stages /\ inv'[i].writes > inv[i].writes
C12_DeletedIsTerminal ==
    [][(StatusOf(entity) = "deleted" /\ \E i \in Slots : StageWrites(i))
          => StatusOf(entity') = "deleted"]_vars

\* C13 (as claimed): an IDCA or NAA invocation that has called the next
\* stage has before that stored its own completion write.
C13_CompletionBeforeHandoff ==
    \A i \in Slots :
        inv[i].kind \in {"idca", "naa"} /\ inv[i].triggered => inv[i].advanced

\* C14 (as claimed): an invocation that has called the next stage never
\* writes status failed, whatever became of the call.
C14_HandoffFailureKeepsStatus ==
    [][\A i \in Slots :
          inv[i].triggered /\ StageWrites(i) => StatusOf(entity') # "failed"]_vars

\* C15 (as claimed): a completion write of NAA or AA stores the output inline
\* when its size is within 32 KiB minus the margin, and otherwise stores the
\* key of an uploaded blob and does not write the output text to the row.
Completes(i, k) == At(i, k, "complete") /\ inv'[i].advanced
StoredAsClaimed(n, text, key) ==
    IF n <= MaxTableChars
    THEN Get(entity', text, 0) = n
    ELSE /\ key \in DOMAIN entity' /\ entity'[key] \in DOMAIN blobs'
         /\ Get(entity', text, 0) = Get(entity, text, 0)
C15_OverflowDecision ==
    [][\A i \in Slots :
          /\ Completes(i, "naa")
                => StoredAsClaimed(inv[i].out, "naa_output", "naa_output_blob")
          /\ Completes(i, "aa")
                => StoredAsClaimed(inv[i].out, "aa_output", "aa_output_blob")]_vars

\* C16 (as claimed): right after an NAA completion write both readers
\* return the output that NAA run produced.
C16_OverflowRoundTrip ==
    [][\A i \in Slots :
          Completes(i, "naa") =>
            /\ get_naa_output_str(entity', blobs') = inv[i].out
            /\ Get(entity_to_response_dict(entity', blobs'), "naa_output", -1)
                  = inv[i].out]_vars

\* C17: the claim write of a stage invocation leaves every property of the
\* row other than status and the stage's start timestamp as it was, and the
\* failure write of NAA leaves every property other than status and error
\* as it was; neither removes a property.
ClaimStamp(k) ==
    CASE k = "naa" -> "naa_started_at"
      [] k = "idca" -> "classifying_started_at"
      [] OTHER -> "aa_started_at"
FieldScoped(old, new, fs) ==
    /\ DOMAIN old \subseteq DOMAIN new
    /\ DOMAIN new \subseteq DOMAIN old \cup fs
    /\ \A f \in DOMAIN old \ fs : new[f] = old[f]
C17_FieldScopedWrites ==
    [][\A i \in Slots :
          /\ (inv[i].kind \in Stages /\ ~inv[i].claimed /\ inv'[i].claimed)
                => FieldScoped(entity, entity', {"status", ClaimStamp(inv[i].kind)})
          /\ (At(i, "naa", "fail") /\ StageWrites(i))
                => FieldScoped(entity, entity', {"status", "error"})]_vars

\* an NAA run claimed the row, its logic raised, and the row holds the
\* failure beside the IDCA output and a deletion stamp
C17_Witness ==
    /\ StatusOf(entity) = "failed" /\ "error" \in DOMAIN entity
    /\ {"idca_output", "naa_started_at", "deleted_at"} \subseteq DOMAIN entity
    /\ \E i \in Claimers("naa") : inv[i].raised /\ Done(i)

\* C20: at every point of a search, and so in the list it returns, no two
\* accumulated records carry the same url, whatever the providers answer in
\* the full-query pass and in the ablation passes.
C20_NoDuplicateUrl ==
    search.pc # "none" =>
        \A a, b \in 1..Len(search.LoR) :
            a # b => search.LoR[a].url # search.LoR[b].url

\* a search returned every url once after an ablation pass, having dropped a
\* record whose url it had seen
C20_Witness ==
    /\ search.pc = "done"
    /\ search.skipped
    /\ Len(search.sent) > 1
    /\ {search.LoR[a].url : a \in 1..Len(search.LoR)} = Urls

\* the number of unquoted, unparenthesized " AND " tokens of q from index i on
RECURSIVE Boundaries(_, _, _, _)
Boundaries(q, i, depth, in_quotes) ==
    IF i >= Len(q) THEN 0
    ELSE LET ch == q[i + 1]
             qt == IF ch = "\"" THEN ~in_quotes ELSE in_quotes
             d == IF ch = "(" /\ ~in_quotes THEN depth + 1
                  ELSE IF ch = ")" /\ ~in_quotes THEN depth - 1
                  ELSE depth
         IN IF ~qt /\ d = 0 /\ Slice(q, i, i + 5) = AndSep
            THEN 1 + Boundaries(q, i + 5, d, qt)
            ELSE Boundaries(q, i + 1, d, qt)

\* n: the top-level clauses of a query
TopLevelClauses(q) == 1 + Boundaries(q, 0, 0, FALSE)

\* C18: a search of a query with n top-level clauses fans out at most n+1
\* times, and it starts a pass only while it holds fewer than T records of
\* distinct url.
C18_PassBoundAndEarlyStop ==
    [][(search.pc # "none" /\ Len(search'.sent) > Len(search.sent))
          => /\ Len(search.LoR) < search.target_total
             /\ Len(search'.sent) <= TopLevelClauses(search.query) + 1]_vars

\* C19: a search of a query with exactly one top-level clause fans out once,
\* attempts no ablation, and returns the query of that pass with the records
\* the pass produced.
C19_SingleClause ==
    (search.pc # "none" /\ TopLevelClauses(search.query) = 1)
        => /\ Len(search.sent) <= 1
           /\ search.pc = "done" => Len(search.sent) = 1 /\ search.ret = search.sent[1]

\* (A) AND (C)
WithoutClause2 == <<"(", "A", ")", " ", "A", "N", "D", " ", "(", "C", ")">>

\* a search of (A) AND (B) AND (C) has returned, its full-query pass found
\* nothing and its pass without clause 2 (the third pass) found something
BoundaryCase ==
    /\ search.pc = "done"
    /\ search.query = ThreeGroups
    /\ Len(search.found) >= 3
    /\ search.found[1] = {}
    /\ search.found[3] # {}

BoundaryOutcome ==
    /\ search.ret = WithoutClause2
    /\ UrlsOf(search.LoR) = search.found[3]

\* C21 as stated: in the boundary case the search reports (A) AND (C) and
\* returns exactly the records of the pass without clause 2.
C21_BoundaryAsStated == BoundaryCase => BoundaryOutcome

\* C21: in the boundary case, when the pass without clause 1 found nothing
\* either and the pass without clause 3, if the target was not reached before
\* it, returned no url that was not seen, the search reports (A) AND (C) and
\* returns exactly the records of the pass without clause 2.
C21_Boundary ==
    (/\ BoundaryCase
     /\ search.found[2] = {}
     /\ Len(search.found) > 3 => search.found[4] \subseteq search.found[3])
        => BoundaryOutcome

\* the boundary case with a pass without clause 3 that returned a seen url
C21_Witness ==
    /\ BoundaryCase
    /\ search.found[2] = {}
    /\ Len(search.found) = 4 /\ search.found[4] # {}
    /\ search.found[4] \subseteq search.found[3]
    /\ BoundaryOutcome

\* the urls pass k returned that no earlier pass had returned
NewIn(k) == search.found[k] \ UNION {search.found[j] : j \in 1..(k - 1)}

\* the ablation passes that added a record
Broadened == {k \in 2..Len(search.found) : NewIn(k) # {}}

\* C22: a search returns the query of its full-query pass when that pass
\* alone reached the target or when no ablation pass added a record, and
\* otherwise the query of the last ablation pass that added a record.
C22_ReportedQuery ==
    search.pc = "done" =>
        IF Cardinality(search.found[1]) >= search.target_total \/ Broadened = {}
        THEN search.ret = search.sent[1]
        ELSE search.ret = search.sent[CHOOSE k \in Broadened : \A j \in Broadened : j <= k]

\* a search returned the query of its second pass: that pass added a record,
\* the third returned only what was seen
C22_Witness ==
    /\ search.pc = "done"
    /\ Len(search.found) = 3
    /\ Broadened = {2}
    /\ search.found[3] # {}
    /\ search.ret = search.sent[2]
    /\ search.ret # search.sent[1]

IsPrefix(s, t) == Len(s) <= Len(t) /\ SubSeq(t, 1, Len(s)) = s

ProviderIndex(p) == CHOOSE k \in 1..3 : Providers[k] = p

\* record a comes before record b in the list one provider returned
BeforeInOwnList(a, b, results_tuple) ==
    \E k \in 1..3 :
        /\ results_tuple[k].ok
        /\ \E m, n \in 1..Len(results_tuple[k].list) :
              m < n /\ results_tuple[k].list[m] = a /\ results_tuple[k].list[n] = b

\* the records in new are in provider issue order and then in the provider's
\* own order, and each is the first one returned with its url
InIssueOrder(new, results_tuple) ==
    /\ \A m, n \in 1..Len(new) :
          m < n => \/ ProviderIndex(new[m].source) < ProviderIndex(new[n].source)
                   \/ /\ new[m].source = new[n].source
                      /\ BeforeInOwnList(new[m], new[n], results_tuple)
    /\ \A m \in 1..Len(new), k \in 1..3 :
          \A n \in 1..Len(results_tuple[k].list) :
              (results_tuple[k].ok /\ results_tuple[k].list[n].url = new[m].url)
                  => ProviderIndex(results_tuple[k].list[n].source)
                         >= ProviderIndex(new[m].source)

\* C23: the accumulated list only grows at its end, so records of an earlier
\* pass precede those first seen later; the records a pass adds are in
\* provider issue order (OpenAlex, PatentsView, Semantic Scholar), then in
\* the provider's own order, whichever provider call finished first.
C23_FirstSeenOrder ==
    [][search.pc # "none" =>
          /\ IsPrefix(search.LoR, search'.LoR)
          /\ search.pc \in {"full_merge", "loop_merge"} =>
                InIssueOrder(SubSeq(search'.LoR, Len(search.LoR) + 1, Len(search'.LoR)),
                             search.results_tuple)]_vars

\* a search returned a record of the last provider, found in its first pass,
\* before a record of the first provider, found in its second pass
C23_Witness ==
    /\ search.pc = "done"
    /\ Len(search.found) = 2
    /\ Len(search.LoR) = 2
    /\ search.found[1] = {search.LoR[1].url}
    /\ search.LoR[1].source = Providers[3]
    /\ search.LoR[2].source = Providers[1]

\* the top-level clauses of q: the text between its unquoted, unparenthesized
\* " AND " tokens, each without the white space around it
RECURSIVE clause_scan(_, _, _, _, _, _)
clause_scan(q, i, current, depth, in_quotes, clauses) ==
    IF i >= Len(q) THEN Append(clauses, Strip(current))
    ELSE LET ch == q[i + 1]
             qt == IF ch = "\"" THEN ~in_quotes ELSE in_quotes
             d == IF ch = "(" /\ ~in_quotes THEN depth + 1
                  ELSE IF ch = ")" /\ ~in_quotes THEN depth - 1
                  ELSE depth
         IN IF ~qt /\ d = 0 /\ Slice(q, i, i + 5) = AndSep
            THEN clause_scan(q, i + 5, << >>, d, qt, Append(clauses, Strip(current)))
            ELSE clause_scan(q, i + 1, Append(current, ch), d, qt, clauses)

Clauses(q) == clause_scan(q, 0, << >>, 0, FALSE, << >>)

\* C24: after the full query, the k-th ablation pass of a search sends the
\* top-level clauses of the query, in their order and joined with AND, with
\* exactly the k-th clause removed; so clauses go in index order, each at
\* most once, and never two in one pass.
C24_SingleClauseAblation ==
    search.pc # "none" =>
        \A k \in 2..Len(search.sent) :
            /\ k - 1 <= Len(Clauses(search.query))
            /\ search.sent[k] = Join(RemainingBlocks(Clauses(search.query), k - 2), AndSep)

\* C25: the first pass of a search sends the query it was given, character
\* for character, and the clauses are split from that same text.
C25_FullQueryUnmodified ==
    (search.pc # "none" /\ Len(search.sent) >= 1)
        => /\ search.sent[1] = search.query
           /\ search.ucs = search.query

\* C26: no fan-out of a search raises, whichever providers fail; a merge
\* step takes in every record of the providers that did return a list; and
\* a search whose passes all returned nothing returns the empty list.
C26_ProviderIsolation ==
    [][search.pc # "none" =>
          /\ search'.pc # "raised"
          /\ search.pc \in {"full_merge", "loop_merge"} =>
                \A k \in 1..3 :
                    search.results_tuple[k].ok =>
                        UrlsOf(search.results_tuple[k].list) \subseteq UrlsOf(search'.LoR)
          /\ (search'.pc = "done" /\ \A k \in 1..Len(search'.found) : search'.found[k] = {})
                => search'.LoR = << >>]_vars

\* a search returned records of a pass in which a provider had failed, after
\* a full-query pass that returned nothing
C26_Witness ==
    /\ search.pc = "done"
    /\ search.partial
    /\ Len(search.found) >= 2
    /\ search.found[1] = {}
    /\ search.LoR # << >>

\* the quotation marks among the first i characters of s
QuotesBefore(s, i) == Cardinality({k \in 1..i : s[k] = "\""})

\* index i of s (from 0) lies inside a double-quoted phrase
InQuotedPhrase(s, i) == QuotesBefore(s, i) % 2 = 1

\* the parentheses open at index i of s (from 0), those inside quoted
\* phrases not counted
ParenDepth(s, i) ==
    Cardinality({k \in 1..i : s[k] = "(" /\ ~InQuotedPhrase(s, k)})
        - Cardinality({k \in 1..i : s[k] = ")" /\ ~InQuotedPhrase(s, k)})

\* the text has been split
IsSplit == search.pc \in {"loop", "loop_merge", "done"} /\ search.sent = << >>

\* C27: split_ucs ends no block at an AND inside a double-quoted phrase or
\* inside parentheses.
C27_SplitRespectsNesting ==
    IsSplit =>
        \A i \in search.cuts :
            ~InQuotedPhrase(search.ucs, i) /\ ParenDepth(search.ucs, i) = 0

\* (a AND b) AND "c AND d" was split once, between its two clauses
C27_Witness ==
    /\ IsSplit
    /\ search.ucs = NestedAnd
    /\ search.cuts = {9}
    /\ Len(search.blocks) = 2
    /\ search.blocks[1] = SubSeq(NestedAnd, 1, 9)
    /\ search.blocks[2] = SubSeq(NestedAnd, 15, 23)

\* the clauses of s, a last clause without any character left out
ClausesWithText(s) ==
    LET cl == Clauses(s)
    IN IF cl[Len(cl)] = << >> THEN SubSeq(cl, 1, Len(cl) - 1) ELSE cl

\* C28: the blocks split_ucs returns are the clauses between the unquoted,
\* unparenthesized " AND " tokens of the text, in order and with all their
\* characters; a word that starts with AND after a space ends no block.
C28_ExactBoundaries ==
    IsSplit => search.blocks = ClausesWithText(search.ucs)

Raising == {"error", "no output"}

\* the operation fails in every attempt the ceiling allows
FailsAlways == \A n \in 1..retry.max_attempts : retry.script[n] \in Raising

\* C29: when the operation fails in every attempt, the bounded retry_agent
\* invokes it exactly max_attempts times, never returns, sleeps between the
\* attempts only, and raises the exception of the last attempt.
C29_BoundedExhaustion ==
    (retry.pc # "none" /\ FailsAlways) =>
        /\ retry.calls <= retry.max_attempts
        /\ retry.sleeps <= retry.max_attempts - 1
        /\ retry.pc \notin {"returned", "done"}
        /\ retry.pc = "raised" =>
              /\ retry.calls = retry.max_attempts
              /\ retry.sleeps = retry.max_attempts - 1
              /\ retry.raised = [kind |-> retry.script[retry.max_attempts],
                                 call |-> retry.max_attempts]

\* five failed attempts of different kinds, four delays, the last one of at
\* least 16 s, and the fifth exception raised
C29_Witness ==
    /\ retry.pc = "raised"
    /\ retry.max_attempts = MaxAttempts
    /\ retry.script[1] # retry.script[MaxAttempts]
    /\ retry.calls = MaxAttempts
    /\ retry.sleeps = MaxAttempts - 1
    /\ retry.sleep_time >= 2 ^ (MaxAttempts - 1)
    /\ retry.raised.call = MaxAttempts

\* the oracle call fails k times in the ways of bad and then leaves a reply
\* of the kinds in good
FailsThenSucceeds(k, bad, good) ==
    /\ \A n \in 1..k : retry.script[n] \in bad
    /\ retry.script[k + 1] \in good

\* the retry returned the reply of call k+1 after k+1 invocations and k
\* delays, and the caller's final report is that reply
UsesReply(k) ==
    /\ retry.calls = k + 1
    /\ retry.sleeps = k
    /\ retry.final_report = [kind |-> retry.script[k + 1], call |-> k + 1]

Forever == retry.pc \in {"loop", "returned", "done", "raised"} /\ "printed" \in DOMAIN retry

AlwaysMalformed == \A n \in 1..MaxCalls : retry.script[n] = "text"

\* C31: when the reply of the oracle fails JSON parsing on every attempt, the
\* retry loop of the stage stops after the attempt ceiling: the operation is
\* never invoked more than MaxAttempts times.
C31_MalformedBounded ==
    (Forever /\ AlwaysMalformed) => retry.calls <= MaxAttempts

FirstSuccess(script) ==
    CHOOSE n \in 1..MaxCalls :
        /\ script[n] = "json"
        /\ \A m \in 1..(n - 1) : script[m] # "json"

EverSucceeds == \E n \in 1..MaxCalls : retry.script[n] = "json"

Returned == retry.pc \in {"returned", "done"}

\* C32: the unbounded retry_agent never raises to its caller, invokes the
\* operation again after every failure, returns the result of the first
\* successful invocation and no other, returns once the operation succeeds,
\* and does not return while every invocation fails.
C32_Unbounded ==
    /\ [](Forever =>
            /\ retry.pc # "raised" /\ retry.raised = None
            /\ retry.printed = (IF Returned THEN retry.calls - 1 ELSE retry.calls)
            /\ Returned =>
                  /\ EverSucceeds
                  /\ retry.calls = FirstSuccess(retry.script)
                  /\ retry.result = [kind |-> "json", call |-> FirstSuccess(retry.script)])
    /\ ((Forever /\ EverSucceeds) ~> Returned)

C32_Witness ==
    /\ Forever
    /\ retry.pc = "done"
    /\ retry.calls = MaxCalls
    /\ retry.printed = MaxCalls - 1
    /\ retry.script[1] = "text" /\ retry.script[2] = "error" /\ retry.script[3] = "no output"

\* ---------------------------------------------------------- C33, C34, C35
Tasks == {http.tasks[c] : c \in {c \in Callers : "tasks" \in DOMAIN http /\ c \in DOMAIN http.tasks}}

AdapterCalls == {t \in Tasks : t.kind \notin {"none", "page"} \/ t.pc \in {"start", "done"}}

\* C33 as stated: the fallback query follows only a transport failure or a
\* first page with zero results.
C33_AsStated ==
    \A t \in AdapterCalls :
        /\ t.fallbacks <= 1
        /\ t.fallbacks > 0 => t.first \in {"transport", "200 empty"}

\* C33: within one adapter call the sanitized fallback query is issued at most
\* once, only by search_openalex and search_semantic_scholar, and only when the
\* fetch of the original query's first page returned no data (transport error,
\* 429 on the last attempt, any other status but 200) or zero results; when
\* the fetch of the fallback query returns no data or zero results, the
\* adapter returns an empty list.
C33_FallbackOnce ==
    \A t \in AdapterCalls :
        /\ t.fallbacks <= 1
        /\ t.fallbacks > 0 =>
              /\ t.provider \in {"OpenAlex", "Semantic Scholar"}
              /\ t.first \in {"transport", "429", "status", "200 empty"}
        /\ (t.first \in {"200 results", "200 other"}) => t.fallbacks = 0
        /\ (t.kind = "fallback" /\ t.pc = "done" /\ t.data \in {"None", "200 empty"}) =>
              (t.ret = "empty list" /\ ~t.raised)

C33_Witness ==
    \E t \in AdapterCalls :
        /\ t.provider = "Semantic Scholar"
        /\ t.fallbacks = 1 /\ t.first = "200 empty"
        /\ t.kind = "fallback" /\ t.pc = "done" /\ t.data = "None"
        /\ t.ret = "empty list"

\* C34 as stated: an adapter one of whose page fetches used up its attempts
\* returns an empty list.
C34_AsStated ==
    \A t \in AdapterCalls :
        (t.pc = "done" /\ t.exhausted) => (t.ret = "empty list" /\ ~t.raised)

\* C34: a page fetch makes at most MAX_RETRIES HTTP attempts and, when every
\* one of them meets 429 or a transport error, returns no data after
\* MAX_RETRIES attempts; an adapter call whose every HTTP attempt meets 429 or
\* a transport error fetches at most two pages and returns an empty list
\* without raising.
C34_Exhaustion ==
    \A t \in AdapterCalls :
        /\ t.attempt < MAX_RETRIES
        /\ (t.retryable /\ t.pc = "fetched") =>
              (t.data = "None" /\ t.exhausted /\ t.attempt = MAX_RETRIES - 1)
        /\ (t.retryable /\ t.pc = "done") =>
              /\ t.ret = "empty list" /\ ~t.raised
              /\ t.fetches <= 2
              /\ t.fetches > 0 => t.exhausted

C34_Witness ==
    \E t \in AdapterCalls :
        /\ t.provider = "OpenAlex"
        /\ t.retryable /\ t.pc = "done" /\ t.exhausted
        /\ t.fetches = 2 /\ t.attempt = MAX_RETRIES - 1
        /\ t.last = "429"
        /\ t.ret = "empty list"

\* C35: any two HTTP requests one process sends to Semantic Scholar start at
\* least one second apart.
C35_StrictSpacing ==
    ("gap" \in DOMAIN http) => http.gap # 0

\* ------------------------------------------------------------------- C36
Searched == {i \in Slots : inv[i].kind = "naa" /\ inv[i].naa.step \notin {"none", "failed"}}

Assembled == {i \in Searched : inv[i].naa.step = "done"}

C37_AnalyzingHasWorker ==
    [][(StatusOf(entity') = "analyzing" /\ StatusOf(entity) # "analyzing")
          => \E i \in Slots :
                /\ inv[i].kind = "naa"
                /\ inv[i].pc = "claim"
                /\ inv'[i].pc = "logic"]_vars

\* ------------------------------------------------------------------- C38
\* C38: the write of status queued by the upload handler never replaces a
\* status written by the IDCA stage or by a later stage: when it lands, the
\* row does not have a status from classifying onward.
C38_UploadKeepsIDCAStatus ==
    [][(upl = "queued" /\ upl' = "done")
          => StatusOf(entity) \notin {"classifying", "classified", "analyzing",
                                      "assessed", "aggregating", "completed",
                                      "failed"}]_vars

\* ------------------------------------------------------------------- C39
\* C39: a row whose status is completed holds an aggregation output, inline
\* in aa_output or as the pointer aa_output_blob.
C39_CompletedHasReport ==
    StatusOf(entity) = "completed"
        => "aa_output" \in DOMAIN entity \/ "aa_output_blob" \in DOMAIN entity

\* ------------------------------------------------------------------- C40
\* C40: whatever completion writes a stage has made for the item, the row
\* never holds both the inline property and the blob pointer of that stage.
C40_NoStalePointer ==
    /\ ~("naa_output" \in DOMAIN entity /\ "naa_output_blob" \in DOMAIN entity)
    /\ ~("aa_output" \in DOMAIN entity /\ "aa_output_blob" \in DOMAIN entity)

====
